---- MODULE Spec2Model ----
(***************************************************************************)
(* Position lifecycle and risk-exit engine of lunara-bot.                  *)
(*                                                                         *)
(* The persistent store is src/db.py (tables trades, coin_performance,     *)
(* users, watchlist).  The bot is a single asyncio event loop: the         *)
(* scheduled job (trade.scheduled_monitoring_job) and one command handler  *)
(* at a time run as coroutines and interleave only at their `await`s.      *)
(* Every action below is the code between two awaits.                      *)
(*                                                                         *)
(* Prices are integers; every entry price is 100, so the percentage        *)
(* ((price - buy) / buy) * 100 is exact in integer arithmetic.             *)
(* SQL NULL / Python None is NULL (0) for numbers and "NULL" for text.     *)
(***************************************************************************)
EXTENDS Integers, Sequences, FiniteSets, TLC

(* ------------------------------ bounds -------------------------------- *)
MaxTrades == 1          \* rows inserted into trades while the job runs (Spec)
MaxRows == 2            \* rows inserted by the command handlers alone
MaxPositions == 1       \* positions open at the start of SpecClose
MaxCloseCalls == 2      \* db.close_trade invocations counted per trade id
MaxMonitored == 2       \* positions open at the start of SpecCycle and SpecExits
MaxWatched == 2         \* rows inserted by the watchlist pass in SpecWatch
MaxCloses == 4          \* candles returned to get_rsi and calc_atr
MaxFaults == 1          \* paper debits after which store faults stop striking

(* --------------------------- program constants ------------------------ *)
ADMIN_USER_ID == 1
PAPER_STARTING_BALANCE == 10000
PAPER_TRADE_SIZE_USDT == 1000
PER_TRADE_ALLOCATION_PERCENT == 5
NEAR_STOP_LOSS_THRESHOLD_PERCENT == 2
NEAR_TAKE_PROFIT_THRESHOLD_PERCENT == 2
RSI_BUY_RECOVERY_THRESHOLD == 32
BTC_ALERT_THRESHOLD_PERCENT == 2

(* ------------------------------ inputs -------------------------------- *)
NULL == 0
NoPnl == -999                      \* pnl_percentage IS NULL
Absent == -1                       \* key not in indicator_cache / prices
NoFlag == -1                       \* autotrade_enabled IS NULL (never set)
Users == {1, 2}
Symbols == {"BTCUSDT"}
EntryPrices == {100}               \* fill / import prices
Prices == {96, 97, 100}              \* ticker prices seen by the bot
ManualSalePrices == {106}          \* price of a sale found on the exchange
RSIs == {50}                       \* RSI values returned by get_rsi
CommandPrices == {100}             \* ticker price seen by a /close command
LazyRSIs == {50}                   \* RSI fetched inside the cycle on a cache miss
NewStops == {94, 97}               \* stop-loss prices handed to update_trade_stop_loss
PeakPrices == {108, 112}           \* peak prices handed to activate_trailing_stop
BuyRSIs == {75}                    \* RSI seen when a watched coin is bought
RowKinds == {"Row", "dict"}        \* type of the rows handed to the monitor
WalletOrders == {<<"BTCUSDT">>}  \* non-stable assets held
StoreFaults == {"none", "log_trade", "remove"}  \* the store call of a promotion that raises
Balances == {0, 3, 5, 50, 100, 200, 1000}   \* account balances in USDT
MinTrades == {5, 10}               \* minimum trade sizes in USDT
RiskPercents == {0, 5, 50, 100, 150}  \* risk fractions in percent
Closes == {1, 2, 4}                \* prices of the candles
Periods == {2, 3}                  \* the period argument of get_rsi and calc_atr
KlineOutcomes == {"ok", "BinanceAPIException", "Exception", "no_client"}
BtcPrices == {9000, 9500, 10000, 10500, 11000}  \* BTCUSDT now and 15 minutes ago
SettingKeys == {"rsi_buy", "rsi_sell", "stop_loss", "trailing_activation",
                "trailing_drop", "take_profit"}   \* setting_key arguments
SettingValues == {8}               \* values handed to update_user_setting
HourlyCloses == {90, 95, 97, 98, 100, 102, 103, 105, 110}  \* close of the latest hourly BTC candle
PreviousCloses == {0, 100, 104}       \* close of the hourly BTC candle before it
CandleOutcomes == {"ok", "short", "BinanceAPIException", "no_client"}
AI_MONITOR_COINS == <<"BTCUSDT">>   \* the coins the AI monitor walks, in order
ShieldNow == {9000, 10000}         \* prices['BTCUSDT'] handed to the AI monitor
ShieldBefore == {10000}            \* prices['BTCUSDT_15min_ago'] handed to it
DailyKlines == {<<"ok", 10000, 450000>>, <<"ok", 10000, 500000>>,
                <<"short", 0, 0>>, <<"Exception", 0, 0>>}
                                   \* 60 days of BTC candles: <<outcome, last close, sum of the last 50 closes>>
AiRSIs == {25, 35}                 \* RSI in the indicator cache of the AI monitor
MacdSignals == {0, 2}              \* MACD signal line; the MACD line is 1
LowerBands == {9500}               \* lower Bollinger band
AiBalances == {3, 100}             \* USDT balance of the admin account
BuyOutcomes == {"filled", "TradeError"}  \* what place_buy_order does
CyclePrices == {94, 97, 98, 100, 104, 108}  \* ticker prices fed one per cycle (SpecCycle)
ExitPrices == {94, 97, 99, 100, 104}   \* ticker prices around the entry price (SpecExits)
CycleRSIs == {50, 75}              \* RSI values prefetched in SpecCycle and SpecExits

VARIABLES
    trades,      \* table trades: sequence of rows, row id = index
    perf,        \* table coin_performance: symbol -> row
    users,       \* table users: user_id -> row
    watchlist,   \* table watchlist: set of <<user_id, coin_symbol>>
    scan,        \* the watchlist pass (check_watchlist_for_buys), one at a time
    bot_data,    \* context.bot_data alert flags
    cyc,         \* the scheduled monitoring job (one instance at a time)
    cmd,         \* the command handler being processed (one at a time)
    aud,         \* observation of calls per trade id (not program state)
    calc,        \* the last call of a function of the program: arguments and result
    custom,      \* table users: whether the row exists, and its custom_* columns
    vol          \* check_btc_volatility_and_alert: its locals, and config.CHAT_ID

vars == <<trades, perf, users, watchlist, scan, bot_data, cyc, cmd, aud, calc, custom, vol>>

\* no sizing or indicator function has been called
CalcIdle == [fn |-> "none", args |-> <<>>, out |-> NULL]

\* check_btc_volatility_and_alert is not running.  chat_id says whether
\* config.CHAT_ID is set; percent_change, current_state and alert are the
\* locals of its last run ("NULL": not assigned), alert being the kind of
\* alert_message; delivered says whether its last send_message returned.
VolIdle(chat_id) ==
    [pc |-> "idle", chat_id |-> chat_id, percent_change |-> 0,
     current_state |-> "NULL", alert |-> "NULL", delivered |-> FALSE]

\* the user has no row in table users; a row that get_or_create_user
\* inserts has every custom_* column NULL
NoUserRow ==
    [exists |-> FALSE, custom_rsi_buy |-> NULL, custom_rsi_sell |-> NULL,
     custom_stop_loss |-> NULL, custom_trailing_activation |-> NULL,
     custom_trailing_drop |-> NULL]

(* ------------------------------ settings ------------------------------ *)
\* db.get_user_tier: the admin is always PREMIUM, new users are FREE
get_user_tier(u) == IF u = ADMIN_USER_ID THEN "PREMIUM" ELSE "FREE"

\* config.SUBSCRIPTION_TIERS through db.get_user_effective_settings
get_user_effective_settings(u) ==
    IF get_user_tier(u) = "PREMIUM"
    THEN [RSI_BUY_THRESHOLD |-> 30, RSI_SELL_THRESHOLD |-> 70,
          PROFIT_TARGET_PERCENTAGE |-> 1, STOP_LOSS_PERCENTAGE |-> 4,
          USE_TRAILING_TAKE_PROFIT |-> TRUE, USE_BOLLINGER_BANDS |-> TRUE,
          TRAILING_PROFIT_ACTIVATION_PERCENT |-> 7, TRAILING_STOP_DROP_PERCENT |-> 3]
    ELSE [RSI_BUY_THRESHOLD |-> 30, RSI_SELL_THRESHOLD |-> 70,
          PROFIT_TARGET_PERCENTAGE |-> 1, STOP_LOSS_PERCENTAGE |-> 5,
          USE_TRAILING_TAKE_PROFIT |-> FALSE, USE_BOLLINGER_BANDS |-> FALSE]

\* buy_price * (1 - STOP_LOSS_PERCENTAGE / 100)
StopLossOf(u, buy) == (buy * (100 - get_user_effective_settings(u).STOP_LOSS_PERCENTAGE)) \div 100
\* buy_price * (1 + PROFIT_TARGET_PERCENTAGE / 100)
TakeProfitOf(u, buy) == (buy * (100 + get_user_effective_settings(u).PROFIT_TARGET_PERCENTAGE)) \div 100

\* ((price - buy_price) / buy_price) * 100
PnlPercent(price, buy) == ((price - buy) * 100) \div buy

WinLossOf(pnl) == IF pnl > 0 THEN "win" ELSE IF pnl < 0 THEN "loss" ELSE "break_even"

(* ------------------------------- store -------------------------------- *)
\* A store value S bundles what one synchronous stretch of code reads and
\* writes: [trades, perf, users, aud].
Store == [trades |-> trades, perf |-> perf, users |-> users, aud |-> aud]

\* aud[id] observes, per trade id: db.close_trade calls, those that returned
\* True, coin_performance upserts, sell orders placed for the position, and
\* whether an actor whose close_trade returned False went on to call
\* update_daily_pl (pl_lost), to announce the close (lost_msgs) or to credit
\* the paper balance (lost_credits)
NewAudit == [calls |-> 0, oks |-> 0, ledger |-> 0, sells |-> 0,
             pl_lost |-> 0, lost_msgs |-> 0, lost_credits |-> 0]

\* db.log_trade: INSERT INTO trades (...) VALUES (..., 'open', ...)
log_trade(S, u, s, buy, sl, tp, mode, qty, rsi) ==
    [S EXCEPT !.trades = Append(@,
        [user_id |-> u, coin_symbol |-> s, buy_price |-> buy, status |-> "open",
         sell_price |-> NULL, stop_loss_price |-> sl, take_profit_price |-> tp,
         peak_price |-> NULL, mode |-> mode, quantity |-> qty,
         close_reason |-> "NULL", win_loss |-> "NULL", pnl_percentage |-> NoPnl,
         rsi_at_buy |-> rsi, current_dsl_stage |-> 0]),
               !.aud = Append(@, NewAudit)]

\* db.is_trade_open
is_trade_open(S, u, s) ==
    \E i \in 1..Len(S.trades) :
        /\ S.trades[i].user_id = u
        /\ S.trades[i].coin_symbol = s
        /\ S.trades[i].status = "open"

\* db.get_open_trades: ids of the open rows of one user, in id order
RECURSIVE OpenIdsFrom(_, _, _)
OpenIdsFrom(S, u, i) ==
    IF i > Len(S.trades) THEN <<>>
    ELSE IF S.trades[i].user_id = u /\ S.trades[i].status = "open"
         THEN <<i>> \o OpenIdsFrom(S, u, i + 1)
         ELSE OpenIdsFrom(S, u, i + 1)

\* the row objects returned by db.get_open_trades (a copy of each row)
get_open_trades(S, u) ==
    LET ids == OpenIdsFrom(S, u, 1)
    IN  [k \in 1..Len(ids) |-> [id |-> ids[k], row |-> S.trades[ids[k]]]]

\* the coin_performance upsert of db.close_trade
UpsertPerformance(p, s, wl, pnl) ==
    [p EXCEPT ![s] = [wins |-> @.wins + (IF wl = "win" THEN 1 ELSE 0),
                      losses |-> @.losses + (IF wl = "loss" THEN 1 ELSE 0),
                      total_pnl_percentage |-> @.total_pnl_percentage + pnl]]

\* the same SELECT without "AND user_id = ?"
CloseTradeFoundAnyUser(S, id, u) ==
    /\ id \in 1..Len(S.trades)
    /\ S.trades[id].status = "open"

\* the same SELECT without "AND status = 'open'"
CloseTradeFoundAnyStatus(S, id, u) ==
    /\ id \in 1..Len(S.trades)
    /\ S.trades[id].user_id = u

\* the SELECT ... WHERE id = ? AND user_id = ? AND status = 'open' of db.close_trade
CloseTradeFound(S, id, u) ==
    /\ id \in 1..Len(S.trades)
    /\ S.trades[id].user_id = u
    /\ S.trades[id].status = "open"

\* db.close_trade; wl = "NULL" and pnl = NoPnl are the omitted arguments.
\* Returns [S |-> the store afterwards, ok |-> the return value].
close_trade(S, id, u, sell_price, close_reason, wl, pnl) ==
    LET counted == IF id \in 1..Len(S.aud)
                   THEN [S EXCEPT !.aud[id].calls = @ + 1] ELSE S
    IN  IF ~CloseTradeFound(S, id, u)
        THEN [S |-> counted, ok |-> FALSE]
        ELSE LET t    == S.trades[id]
                 pnl2 == IF pnl = NoPnl THEN PnlPercent(sell_price, t.buy_price) ELSE pnl
                 wl2  == IF wl = "NULL" THEN WinLossOf(pnl2) ELSE wl
             IN  [S |-> [counted EXCEPT
                           !.trades[id].status = "closed",
                           !.trades[id].sell_price = sell_price,
                           !.trades[id].close_reason = close_reason,
                           !.trades[id].win_loss = wl2,
                           !.trades[id].pnl_percentage = pnl2,
                           !.perf = UpsertPerformance(@, t.coin_symbol, wl2, pnl2),
                           !.aud[id].oks = @ + 1,
                           !.aud[id].ledger = @ + 1],
                  ok |-> TRUE]

\* db.update_paper_balance
update_paper_balance(S, u, amount) ==
    [S EXCEPT !.users[u].paper_balance = @ + amount]

\* risk_management.update_daily_pl -> db.update_daily_pl(today, result).
\* The store function is not in the sources; the call is recorded per trade,
\* together with whether the caller's preceding close_trade had succeeded.
update_daily_pl(S, id, won) ==
    [S EXCEPT !.aud[id].pl_lost = IF won THEN @ ELSE 1]

\* db.update_trade_stop_loss: UPDATE ... WHERE id = ?
update_trade_stop_loss(S, id, new_stop_loss_price, new_dsl_stage) ==
    IF id \in 1..Len(S.trades)
    THEN [S EXCEPT !.trades[id].stop_loss_price = new_stop_loss_price,
                   !.trades[id].current_dsl_stage = new_dsl_stage]
    ELSE S

\* db.activate_trailing_stop: UPDATE trades SET peak_price = ? WHERE id = ?
activate_trailing_stop(S, id, peak_price) ==
    IF id \in 1..Len(S.trades)
    THEN [S EXCEPT !.trades[id].peak_price = peak_price]
    ELSE S

\* db.update_trade_field: UPDATE trades SET <field_name> = ? WHERE id = ?
update_trade_field(S, id, field_name, value) ==
    IF id \in 1..Len(S.trades)
    THEN [S EXCEPT !.trades[id][field_name] = value]
    ELSE S

\* db.reset_paper_account: the balance is reset and every open PAPER row of
\* the user is closed at its buy price with reason 'Reset'
reset_paper_account(S, u) ==
    [S EXCEPT !.users[u].paper_balance = PAPER_STARTING_BALANCE,
              !.trades = [i \in 1..Len(S.trades) |->
                            IF /\ S.trades[i].user_id = u
                               /\ S.trades[i].mode = "PAPER"
                               /\ S.trades[i].status = "open"
                            THEN [S.trades[i] EXCEPT !.status = "closed",
                                                     !.sell_price = S.trades[i].buy_price,
                                                     !.close_reason = "Reset"]
                            ELSE S.trades[i]]]

\* db.set_user_trading_mode
set_user_trading_mode(S, u, mode) == [S EXCEPT !.users[u].trading_mode = mode]

Commit(S) ==
    /\ trades' = S.trades
    /\ perf' = S.perf
    /\ users' = S.users
    /\ aud' = S.aud

(* ------------------------- command handlers --------------------------- *)
\* no command is being handled; failed_id is the trade id named in the
\* "Failed to close trade" reply when that was the last reply sent
CmdIdle ==
    [pc |-> "idle", user |-> 0, id |-> 0, symbol |-> "NULL", price |-> NULL,
     buy_price |-> NULL, quantity |-> NULL, failed_id |-> 0]

\* db.get_trade_by_id(trade_id, user_id): SELECT * WHERE id = ? AND user_id = ?
get_trade_by_id(S, id, u) ==
    IF id \in 1..Len(S.trades) /\ S.trades[id].user_id = u THEN id ELSE NULL

\* main.close_command (/close of main.py): lookup, price, db.close_trade
close_command(u, id, price) ==
    /\ cmd.pc = "idle"
    /\ IF get_trade_by_id(Store, id, u) = NULL
       THEN /\ cmd' = CmdIdle
            /\ UNCHANGED <<calc, custom, vol, trades, perf, users, aud>>
       ELSE IF price = NULL
       THEN /\ cmd' = CmdIdle
            /\ UNCHANGED <<calc, custom, vol, trades, perf, users, aud>>
       ELSE /\ aud[id].calls < MaxCloseCalls
            /\ LET r == close_trade(Store, id, u, price, "NULL", "NULL", NoPnl)
               IN  /\ Commit(r.S)
                   /\ cmd' = CmdIdle
    /\ UNCHANGED <<calc, custom, vol, watchlist, scan, bot_data, cyc>>

\* trade.close_trade_command, lines 630-658 and the PAPER branch 692-704.
\* The lookup by id alone and the close_timestamp column belong to a store
\* version that is not in the sources: close_timestamp is taken to be set
\* exactly when the row is closed.
close_timestamp(t) == t.status = "closed"

close_trade_command_start(u, id, price) ==
    /\ cmd.pc = "idle"
    /\ IF \/ id > Len(trades)
          \/ trades[id].user_id # u
          \/ close_timestamp(trades[id])
       THEN /\ cmd' = CmdIdle
            /\ UNCHANGED <<calc, custom, vol, trades, perf, users, aud>>
       ELSE IF price = NULL
       THEN /\ cmd' = CmdIdle
            /\ UNCHANGED <<calc, custom, vol, trades, perf, users, aud>>
       ELSE LET t == trades[id]
                pnl_percent == PnlPercent(price, t.buy_price)
                profit_usdt == IF t.quantity # NULL
                               THEN (price - t.buy_price) * t.quantity ELSE 0
                win_loss == WinLossOf(pnl_percent)
            IN  IF t.mode = "LIVE"
                THEN \* suspended in `await update.message.reply_text(...)`
                     /\ cmd' = [pc |-> IF t.quantity > 0 THEN "selling" ELSE "db_only",
                                user |-> u, id |-> id, symbol |-> t.coin_symbol,
                                price |-> price, buy_price |-> t.buy_price,
                                quantity |-> t.quantity, failed_id |-> 0]
                     /\ UNCHANGED <<calc, custom, vol, trades, perf, users, aud>>
                ELSE /\ aud[id].calls < MaxCloseCalls
                     /\ LET r == close_trade(Store, id, u, price, "Manual Close",
                                             win_loss, pnl_percent)
                        IN  IF r.ok
                            THEN /\ Commit(update_paper_balance(r.S, u, profit_usdt))
                                 /\ cmd' = CmdIdle
                            ELSE /\ Commit(r.S)
                                 /\ cmd' = CmdIdle
    /\ UNCHANGED <<calc, custom, vol, watchlist, scan, bot_data, cyc>>

\* the code run by close_trade_command after place_sell_order returned, or
\* after the "Cannot close ... on Binance" reply: lines 665-673 and 676-684
CloseAfterReply(S, id, u, price, buy_price, quantity) ==
    LET pnl_percent == PnlPercent(price, buy_price)
        profit_usdt == IF quantity # NULL THEN (price - buy_price) * quantity ELSE 0
        r  == close_trade(S, id, u, price, "Manual Close", WinLossOf(pnl_percent), pnl_percent)
        S2 == update_daily_pl(r.S, id, r.ok)
    IN  [S2 EXCEPT !.aud[id].lost_msgs = IF r.ok THEN @ ELSE 1]

\* the same handler recording the close before it looks at the order's outcome
close_trade_command_sell_close_first(outcome) ==
    /\ cmd.pc = "selling"
    /\ aud[cmd.id].calls < MaxCloseCalls
    /\ Commit(CloseAfterReply([Store EXCEPT !.aud[cmd.id].sells =
                                    IF outcome = "ok" THEN @ + 1 ELSE @],
                              cmd.id, cmd.user, cmd.price, cmd.buy_price, cmd.quantity))
    /\ cmd' = IF outcome = "ok" THEN CmdIdle ELSE [CmdIdle EXCEPT !.failed_id = cmd.id]
    /\ UNCHANGED <<calc, custom, vol, watchlist, scan, bot_data, cyc>>

\* trade.close_trade_command, LIVE branch with a quantity, lines 662-673 and
\* the handlers 686-690; outcome is what place_sell_order does
close_trade_command_sell(outcome) ==
    /\ cmd.pc = "selling"
    /\ IF outcome = "ok"
       THEN /\ aud[cmd.id].calls < MaxCloseCalls
            /\ Commit(CloseAfterReply([Store EXCEPT !.aud[cmd.id].sells = @ + 1],
                                      cmd.id, cmd.user, cmd.price, cmd.buy_price, cmd.quantity))
            /\ cmd' = CmdIdle
       ELSE \* TradeError, or any other exception: only a reply is sent
            /\ cmd' = [CmdIdle EXCEPT !.failed_id = cmd.id]
            /\ UNCHANGED <<calc, custom, vol, trades, perf, users, aud>>
    /\ UNCHANGED <<calc, custom, vol, watchlist, scan, bot_data, cyc>>

\* trade.close_trade_command, LIVE branch without a quantity, lines 675-684
close_trade_command_db_only ==
    /\ cmd.pc = "db_only"
    /\ aud[cmd.id].calls < MaxCloseCalls
    /\ Commit(CloseAfterReply(Store, cmd.id, cmd.user, cmd.price, cmd.buy_price, cmd.quantity))
    /\ cmd' = CmdIdle
    /\ UNCHANGED <<calc, custom, vol, watchlist, scan, bot_data, cyc>>

\* main.buy_command up to its first reply: mode gate and the open-trade check
buy_command_start(u, s) ==
    /\ cmd.pc = "idle"
    /\ users[u].trading_mode = "LIVE" \/ u = ADMIN_USER_ID
    /\ ~is_trade_open(Store, u, s)
    /\ cmd' = [CmdIdle EXCEPT !.pc = "buying", !.user = u, !.symbol = s]
    /\ UNCHANGED <<calc, custom, vol, trades, perf, users, aud, watchlist, scan, bot_data, cyc>>

\* main.buy_command after the reply: balance check, place_buy_order, log_trade
buy_command_order(filled, entry_price, quantity) ==
    /\ cmd.pc = "buying"
    /\ IF filled
       THEN /\ Commit(log_trade(Store, cmd.user, cmd.symbol, entry_price,
                                StopLossOf(cmd.user, entry_price),
                                TakeProfitOf(cmd.user, entry_price),
                                "LIVE", quantity, NULL))
            /\ cmd' = CmdIdle
       ELSE /\ cmd' = CmdIdle
            /\ UNCHANGED <<calc, custom, vol, trades, perf, users, aud>>
    /\ UNCHANGED <<calc, custom, vol, watchlist, scan, bot_data, cyc>>

\* trade.import_last_trade_command (/import): LIVE mode only, no check for
\* an already open trade on the symbol
import_last_trade_command(u, s, buy_price, quantity) ==
    /\ cmd.pc = "idle"
    /\ users[u].trading_mode # "PAPER"
    /\ Commit(log_trade(Store, u, s, buy_price, StopLossOf(u, buy_price),
                        TakeProfitOf(u, buy_price), "LIVE", quantity, NULL))
    /\ cmd' = CmdIdle
    /\ UNCHANGED <<calc, custom, vol, watchlist, scan, bot_data, cyc>>

\* the loop of main.import_all_command over the wallet balances, in order
RECURSIVE ImportAll(_, _, _, _)
ImportAll(S, u, assets, price) ==
    IF assets = <<>> THEN S
    ELSE LET s == Head(assets)
         IN  IF is_trade_open(S, u, s)
             THEN ImportAll(S, u, Tail(assets), price)
             ELSE ImportAll(log_trade(S, u, s, price, StopLossOf(u, price),
                                      TakeProfitOf(u, price), "LIVE", 1, NULL),
                            u, Tail(assets), price)

\* main.import_all_command (/import_all); assets are the wallet's holdings
import_all_command(u, assets, price) ==
    /\ cmd.pc = "idle"
    /\ users[u].trading_mode = "LIVE"
    /\ LET S1 == ImportAll(Store, u, assets, price)
       IN  /\ Len(S1.trades) > Len(trades)
           /\ Commit(S1)
    /\ cmd' = CmdIdle
    /\ UNCHANGED <<calc, custom, vol, watchlist, scan, bot_data, cyc>>

\* telegram_bot.set_mode_command -> db.set_user_trading_mode
set_mode_command(u, mode) ==
    /\ cmd.pc = "idle"
    /\ users[u].trading_mode # mode
    /\ users' = set_user_trading_mode(Store, u, mode).users
    /\ cmd' = CmdIdle
    /\ UNCHANGED <<calc, custom, vol, trades, perf, aud, watchlist, scan, bot_data, cyc>>

\* main.autotrade_command on / off -> db.set_autotrade_status (admin only)
autotrade_command(enabled) ==
    /\ cmd.pc = "idle"
    /\ users[ADMIN_USER_ID].autotrade_enabled # enabled
    /\ users' = [users EXCEPT ![ADMIN_USER_ID].autotrade_enabled = enabled]
    /\ cmd' = CmdIdle
    /\ UNCHANGED <<calc, custom, vol, trades, perf, aud, watchlist, scan, bot_data, cyc>>

(* ------------------------------ watchlist ----------------------------- *)
\* A watchlist row is [user_id, coin_symbol, expired, logged, debits]:
\* expired says that its age exceeds config.WATCHLIST_TIMEOUT_HOURS; logged
\* and debits observe the db.log_trade and db.update_paper_balance calls
\* made for the entry, counted up to MaxFaults.
Once(n) == IF n < MaxFaults THEN n + 1 ELSE MaxFaults

\* db.is_on_watchlist
is_on_watchlist(u, s) == \E w \in watchlist : w.user_id = u /\ w.coin_symbol = s

\* the pass is not running, or is between two items
ScanIdle == [pc |-> "idle", item |-> NULL, rsi |-> NULL, price |-> NULL]

\* trade.quest_command when the scan says "watch": db.add_to_watchlist
quest_command(u, s) ==
    /\ cmd.pc = "idle"
    /\ ~is_trade_open(Store, u, s)
    /\ ~is_on_watchlist(u, s)
    /\ watchlist' = watchlist \cup {[user_id |-> u, coin_symbol |-> s, expired |-> FALSE,
                                      logged |-> 0, debits |-> 0]}
    /\ UNCHANGED <<calc, custom, vol, trades, perf, users, aud, scan, bot_data, cyc, cmd>>

\* time passes: the entry becomes older than WATCHLIST_TIMEOUT_HOURS
WatchlistAges(w) ==
    /\ w \in watchlist
    /\ ~w.expired
    /\ watchlist' = (watchlist \ {w}) \cup {[w EXCEPT !.expired = TRUE]}
    /\ UNCHANGED <<calc, custom, vol, trades, perf, users, aud, scan, bot_data, cyc, cmd>>

\* lines 815-891 of trade.check_watchlist_for_buys: the buy signal and the
\* promotion of entry w.  proceed = FALSE stands for the pause / balance /
\* order-failure exits.  fault names the store call that raises
\* (sqlite3.Error): "log_trade", "remove" (db.remove_from_watchlist) or
\* "none"; the exception is not a TradeError and leaves the function.
Promote(w, rsi, price, proceed, fault) ==
    /\ rsi # NULL
    /\ rsi > RSI_BUY_RECOVERY_THRESHOLD
    /\ price # NULL
    /\ proceed
    /\ LET u == w.user_id
           s == w.coin_symbol
           live == users[u].trading_mode = "LIVE"
           logs == fault # "log_trade"
           removes == fault = "none"
           w2 == [w EXCEPT !.logged = IF logs THEN Once(@) ELSE @,
                           !.debits = IF live THEN @ ELSE Once(@)]
           S1 == IF live THEN Store
                 ELSE update_paper_balance(Store, u, -PAPER_TRADE_SIZE_USDT)
           S2 == IF ~logs THEN S1
                 ELSE IF live
                 THEN log_trade(S1, u, s, price, StopLossOf(u, price),
                                TakeProfitOf(u, price), "LIVE", 1, rsi)
                 ELSE log_trade(S1, u, s, price, StopLossOf(u, price),
                                TakeProfitOf(u, price), "PAPER", NULL, NULL)
       IN  /\ live \/ users[u].paper_balance >= PAPER_TRADE_SIZE_USDT
           /\ (fault # "none" /\ ~live) =>
                 PAPER_STARTING_BALANCE - users[u].paper_balance
                     < MaxFaults * PAPER_TRADE_SIZE_USDT
           /\ Commit(S2)
           /\ watchlist' = IF removes THEN watchlist \ {w}
                           ELSE (watchlist \ {w}) \cup {w2}
           /\ scan' = IF removes
                      THEN [pc |-> IF live THEN "live_note" ELSE "paper_note",
                            item |-> w2, rsi |-> rsi, price |-> price]
                      ELSE ScanIdle

\* the same iteration with the buy signal looked at before the timeout
check_watchlist_for_buys_signal_first(w, rsi, price, proceed, fault) ==
    /\ scan.pc = "idle"
    /\ w \in watchlist
    /\ IF w.expired /\ ~(rsi # NULL /\ rsi > RSI_BUY_RECOVERY_THRESHOLD /\ price # NULL)
       THEN /\ fault = "none"
            /\ watchlist' = watchlist \ {w}
            /\ scan' = [pc |-> "expiry_note", item |-> w, rsi |-> rsi, price |-> price]
            /\ UNCHANGED <<calc, custom, vol, trades, perf, users, aud>>
       ELSE Promote(w, rsi, price, proceed, fault)
    /\ UNCHANGED <<calc, custom, vol, bot_data, cyc, cmd>>

\* one iteration of the loop of trade.check_watchlist_for_buys, lines 781-891,
\* up to its await.  rsi and price are the cached indicator and the price
\* handed to the pass.
check_watchlist_for_buys(w, rsi, price, proceed, fault) ==
    /\ scan.pc = "idle"
    /\ w \in watchlist
    /\ IF w.expired
       THEN \* lines 790-801: remove, then the expiry notice, then `continue`
            /\ fault = "none"
            /\ watchlist' = watchlist \ {w}
            /\ scan' = [pc |-> "expiry_note", item |-> w, rsi |-> rsi, price |-> price]
            /\ UNCHANGED <<calc, custom, vol, trades, perf, users, aud>>
       ELSE Promote(w, rsi, price, proceed, fault)
    /\ UNCHANGED <<calc, custom, vol, bot_data, cyc, cmd>>

\* the send_message the iteration was suspended in (lines 794, 860, 891)
\* returned or raised: the pass goes on to its next item, or ends
watchlist_notified ==
    /\ scan.pc # "idle"
    /\ scan' = ScanIdle
    /\ UNCHANGED <<calc, custom, vol, trades, perf, users, aud, watchlist, bot_data, cyc, cmd>>

(* ---------------------- the scheduled monitoring job ------------------ *)
NoPrices == [s \in Symbols |-> Absent]

\* close_reason and notification are the locals of the iteration being run;
\* ncalls counts the db.close_trade calls it has made so far; due observes
\* the watchlist entries that were past their timeout when the cycle began
CycIdle(kind) ==
    [pc |-> "idle", kind |-> kind, rows |-> <<>>, i |-> 0, prices |-> NoPrices,
     cache |-> NoPrices, close_reason |-> "NULL", notification |-> FALSE,
     ncalls |-> 0, due |-> {}]

\* get_autotrade_status of db.py (the standalone scripts, telegram_bot.py):
\* a flag that was never set means enabled for the admin only
get_autotrade_status(u) ==
    IF users[u].autotrade_enabled # NoFlag THEN users[u].autotrade_enabled = 1
    ELSE u = ADMIN_USER_ID

\* get_autotrade_status of modules/db_access.py, which trade.py and main.py
\* import as db: a flag that was never set means disabled
get_autotrade_status_db_access(u) ==
    IF users[u].autotrade_enabled # NoFlag THEN users[u].autotrade_enabled = 1
    ELSE FALSE

\* trade.scheduled_monitoring_job up to the first await of prefetch_prices.
\* cyc.kind is the type of the rows the build hands to run_monitoring_cycle:
\* "Row" is what db.get_open_trades returns (sqlite3.Row, seven columns),
\* "dict" is a mapping with every column of the row.
scheduled_monitoring_job ==
    /\ cyc.pc = "idle"
    /\ get_autotrade_status_db_access(ADMIN_USER_ID)
    /\ get_open_trades(Store, ADMIN_USER_ID) # <<>>
    /\ cyc' = [CycIdle(cyc.kind) EXCEPT !.pc = "prefetch",
                              !.rows = get_open_trades(Store, ADMIN_USER_ID),
                              !.due = {<<w.user_id, w.coin_symbol>> : w \in {x \in watchlist : x.expired}}]
    /\ UNCHANGED <<calc, custom, vol, trades, perf, users, aud, watchlist, scan, bot_data, cmd>>

RowSymbols(rows) == {rows[k].row.coin_symbol : k \in 1..Len(rows)}

\* trade.prefetch_prices and trade.prefetch_indicators: a symbol gets an entry
\* only when the fetched value is truthy
prefetch(prices, cache) ==
    /\ cyc.pc = "prefetch"
    /\ \A s \in Symbols \ RowSymbols(cyc.rows) : prices[s] = Absent /\ cache[s] = Absent
    /\ cyc' = [cyc EXCEPT !.pc = "eval", !.i = 1, !.prices = prices, !.cache = cache]
    /\ UNCHANGED <<calc, custom, vol, trades, perf, users, aud, watchlist, scan, bot_data, cmd>>

\* `continue`, or the end of the for loop of run_monitoring_cycle
Advance(c) ==
    IF c.i >= Len(c.rows)
    THEN CycIdle(c.kind)
    ELSE [c EXCEPT !.pc = "eval", !.i = @ + 1, !.close_reason = "NULL",
                   !.notification = FALSE, !.ncalls = 0]

\* an exception leaves run_monitoring_cycle; scheduled_monitoring_job logs it
Abort(c) == CycIdle(c.kind)

CurRow(c) == c.rows[c.i].row
CurId(c) == c.rows[c.i].id

\* lines 1161-1177, "Trade close logic": for a PAPER row db.close_trade is
\* called with whatever close_reason the rules left
TradeCloseLogic(S, b, c) ==
    LET t == CurRow(c)
        price == c.prices[t.coin_symbol]
        pnl_percent == PnlPercent(price, t.buy_price)
    IN  IF t.mode = "PAPER"
        THEN [S |-> close_trade(S, CurId(c), t.user_id, price, c.close_reason,
                                WinLossOf(pnl_percent), pnl_percent).S,
              bot |-> b, c |-> Advance([c EXCEPT !.ncalls = @ + 1])]
        ELSE [S |-> S, bot |-> b, c |-> Advance(c)]

\* lines 1142-1159, near take-profit alert
NearTakeProfit(S, b, c) ==
    LET t == CurRow(c)
        id == CurId(c)
        price == c.prices[t.coin_symbol]
        tp == t.take_profit_price
        near == tp # NULL /\ price * 100 >= tp * (100 - NEAR_TAKE_PROFIT_THRESHOLD_PERCENT)
        away == tp # NULL /\ price * 100 < tp * (100 - NEAR_TAKE_PROFIT_THRESHOLD_PERCENT)
    IN  IF near /\ id \notin b.near_tp
        THEN [S |-> S, bot |-> b, c |-> [c EXCEPT !.pc = "tp_send"]]
        ELSE IF away /\ id \in b.near_tp
        THEN TradeCloseLogic(S, [b EXCEPT !.near_tp = @ \ {id}], c)
        ELSE TradeCloseLogic(S, b, c)

\* the same alert without the look at the dedup flag
NearStopLoss_no_dedup(S, b, c) ==
    LET t == CurRow(c)
        id == CurId(c)
        price == c.prices[t.coin_symbol]
        sl == t.stop_loss_price
        zone == /\ sl # NULL
                /\ price > sl
                /\ price * 100 <= sl * (100 + NEAR_STOP_LOSS_THRESHOLD_PERCENT)
    IN  IF zone
        THEN [S |-> S, bot |-> b, c |-> [c EXCEPT !.pc = "sl_send"]]
        ELSE IF id \in b.near_sl
        THEN NearTakeProfit(S, [b EXCEPT !.near_sl = @ \ {id}], c)
        ELSE NearTakeProfit(S, b, c)

\* lines 1123-1140, near stop-loss alert
NearStopLoss(S, b, c) ==
    LET t == CurRow(c)
        id == CurId(c)
        price == c.prices[t.coin_symbol]
        sl == t.stop_loss_price
        zone == /\ sl # NULL
                /\ price > sl
                /\ price * 100 <= sl * (100 + NEAR_STOP_LOSS_THRESHOLD_PERCENT)
    IN  IF zone
        THEN IF id \notin b.near_sl
             THEN [S |-> S, bot |-> b, c |-> [c EXCEPT !.pc = "sl_send"]]
             ELSE NearTakeProfit(S, b, c)
        ELSE IF id \in b.near_sl
        THEN NearTakeProfit(S, [b EXCEPT !.near_sl = @ \ {id}], c)
        ELSE NearTakeProfit(S, b, c)

\* the same rule with the loss guard written pnl_percent >= -1.0
RsiExit_loss_guard_inclusive(S, b, c, lazy) ==
    LET t == CurRow(c)
        id == CurId(c)
        s == t.coin_symbol
        price == c.prices[s]
        pnl_percent == PnlPercent(price, t.buy_price)
        thr == get_user_effective_settings(t.user_id).RSI_SELL_THRESHOLD
        cache2 == IF c.cache[s] = Absent THEN [c.cache EXCEPT ![s] = lazy] ELSE c.cache
        current_rsi == cache2[s]
        c2 == [c EXCEPT !.cache = cache2]
    IN  IF ~(pnl_percent >= -1)
        THEN NearStopLoss(S, b, c)
        ELSE IF ~(current_rsi # NULL /\ current_rsi < thr)
        THEN NearStopLoss(S, b, c2)
        ELSE IF t.rsi_at_buy = NULL
        THEN [S |-> S, bot |-> b, c |-> Abort(c2)]
        ELSE IF t.rsi_at_buy > thr
        THEN LET r == close_trade(S, id, t.user_id, price, "RSI Exit",
                                  IF pnl_percent > 0 THEN "win" ELSE "loss", pnl_percent)
             IN  NearStopLoss(update_daily_pl(r.S, id, r.ok), b,
                              [c2 EXCEPT !.close_reason = "RSI Exit", !.notification = TRUE,
                                         !.ncalls = @ + 1])
        ELSE NearStopLoss(S, b, c2)

\* the same rule asking get_rsi again for every position
RsiExit_refetch(S, b, c, lazy) ==
    LET t == CurRow(c)
        id == CurId(c)
        s == t.coin_symbol
        price == c.prices[s]
        pnl_percent == PnlPercent(price, t.buy_price)
        thr == get_user_effective_settings(t.user_id).RSI_SELL_THRESHOLD
        cache2 == [c.cache EXCEPT ![s] = lazy]
        current_rsi == cache2[s]
        c2 == [c EXCEPT !.cache = cache2]
    IN  IF ~(pnl_percent > -1)
        THEN NearStopLoss(S, b, c)
        ELSE IF ~(current_rsi # NULL /\ current_rsi < thr)
        THEN NearStopLoss(S, b, c2)
        ELSE IF t.rsi_at_buy = NULL
        THEN \* None > threshold raises TypeError
             [S |-> S, bot |-> b, c |-> Abort(c2)]
        ELSE IF t.rsi_at_buy > thr
        THEN LET r == close_trade(S, id, t.user_id, price, "RSI Exit",
                                  IF pnl_percent > 0 THEN "win" ELSE "loss", pnl_percent)
             IN  NearStopLoss(update_daily_pl(r.S, id, r.ok), b,
                              [c2 EXCEPT !.close_reason = "RSI Exit", !.notification = TRUE,
                                         !.ncalls = @ + 1])
        ELSE NearStopLoss(S, b, c2)

\* lines 1101-1122, RSI exit; lazy is what get_rsi returns if it is called
RsiExit(S, b, c, lazy) ==
    LET t == CurRow(c)
        id == CurId(c)
        s == t.coin_symbol
        price == c.prices[s]
        pnl_percent == PnlPercent(price, t.buy_price)
        thr == get_user_effective_settings(t.user_id).RSI_SELL_THRESHOLD
        cache2 == IF c.cache[s] = Absent THEN [c.cache EXCEPT ![s] = lazy] ELSE c.cache
        current_rsi == cache2[s]
        c2 == [c EXCEPT !.cache = cache2]
    IN  IF ~(pnl_percent > -1)
        THEN NearStopLoss(S, b, c)
        ELSE IF ~(current_rsi # NULL /\ current_rsi < thr)
        THEN NearStopLoss(S, b, c2)
        ELSE IF t.rsi_at_buy = NULL
        THEN \* None > threshold raises TypeError
             [S |-> S, bot |-> b, c |-> Abort(c2)]
        ELSE IF t.rsi_at_buy > thr
        THEN LET r == close_trade(S, id, t.user_id, price, "RSI Exit",
                                  IF pnl_percent > 0 THEN "win" ELSE "loss", pnl_percent)
             IN  NearStopLoss(update_daily_pl(r.S, id, r.ok), b,
                              [c2 EXCEPT !.close_reason = "RSI Exit", !.notification = TRUE,
                                         !.ncalls = @ + 1])
        ELSE NearStopLoss(S, b, c2)

\* lines 1057-1099: manual-sale sync, stop-loss, and the manual-sale notice.
\* manual is the price of a sell found by get_my_trades, or NULL.
SyncAndStopLoss(S, b, c0, manual, lazy) ==
    LET c == [c0 EXCEPT !.close_reason = "NULL", !.notification = FALSE, !.ncalls = 0]
        t == CurRow(c)
        id == CurId(c)
        price == c.prices[t.coin_symbol]
        pnl_percent == PnlPercent(price, t.buy_price)
        synced == t.mode = "LIVE" /\ manual # NULL
        r1 == close_trade(S, id, t.user_id, manual, "Manual Binance Sale", "NULL", NoPnl)
        S1 == IF synced THEN update_daily_pl(r1.S, id, r1.ok) ELSE S
        c1 == IF synced
              THEN [c EXCEPT !.close_reason = "Manual", !.notification = TRUE,
                             !.ncalls = 1]
              ELSE c
        stopped == price <= t.stop_loss_price
        r2 == close_trade(S1, id, t.user_id, price, "Stop-Loss", "loss", pnl_percent)
        \* (a close_trade that finds the row closed by this very iteration
        \* has not lost it to another actor)
        S2 == IF stopped THEN update_daily_pl(r2.S, id, r2.ok \/ (synced /\ r1.ok)) ELSE S1
        c2 == IF stopped
              THEN [c1 EXCEPT !.close_reason = "Stop-Loss", !.notification = TRUE,
                              !.ncalls = @ + 1]
              ELSE c1
    IN  IF c2.notification /\ c2.close_reason = "Manual"
        THEN [S |-> S2, bot |-> b, c |-> [c2 EXCEPT !.pc = "manual_note"]]
        ELSE RsiExit(S2, b, c2, lazy)

CommitCycle(r) ==
    /\ Commit(r.S)
    /\ bot_data' = r.bot
    /\ cyc' = r.c

\* the same iteration with prices.get(symbol, 0) in place of the
\* `symbol not in prices` test: a missing price is evaluated as zero
run_monitoring_cycle_default_price(manual, lazy) ==
    /\ cyc.pc = "eval"
    /\ aud[CurId(cyc)].calls < MaxCloseCalls
    /\ IF cyc.kind = "Row"
       THEN /\ cyc' = Advance(cyc)
            /\ UNCHANGED <<calc, custom, vol, trades, perf, users, aud, bot_data>>
       ELSE LET s == CurRow(cyc).coin_symbol
                c == IF cyc.prices[s] = Absent THEN [cyc EXCEPT !.prices[s] = 0] ELSE cyc
            IN  CommitCycle(SyncAndStopLoss(Store, bot_data, c, manual, lazy))
    /\ UNCHANGED <<calc, custom, vol, watchlist, scan, cmd>>

\* one iteration of the for loop of trade.run_monitoring_cycle, from line
\* 1033 to its first await or to the end of the iteration
run_monitoring_cycle(manual, lazy) ==
    /\ cyc.pc = "eval"
    /\ aud[CurId(cyc)].calls < MaxCloseCalls
    /\ IF cyc.kind = "Row"
       THEN \* sqlite3.Row has no .get and `'coin_symbol' in trade` looks at
            \* the values: symbol is None and the row is skipped (line 1038)
            /\ cyc' = Advance(cyc)
            /\ UNCHANGED <<calc, custom, vol, trades, perf, users, aud, bot_data>>
       ELSE IF cyc.prices[CurRow(cyc).coin_symbol] = Absent
       THEN /\ cyc' = Advance(cyc)
            /\ UNCHANGED <<calc, custom, vol, trades, perf, users, aud, bot_data>>
       ELSE CommitCycle(SyncAndStopLoss(Store, bot_data, cyc, manual, lazy))
    /\ UNCHANGED <<calc, custom, vol, watchlist, scan, cmd>>

\* lines 1093-1099: the manual-sale notice was sent or failed; `continue`
manual_sale_notified ==
    /\ cyc.pc = "manual_note"
    /\ cyc' = Advance(cyc)
    /\ UNCHANGED <<calc, custom, vol, trades, perf, users, aud, watchlist, scan, bot_data, cmd>>

\* line 1135 returned (sent) or raised
near_stop_loss_sent(sent) ==
    /\ cyc.pc = "sl_send"
    /\ IF sent
       THEN CommitCycle(NearTakeProfit(Store, [bot_data EXCEPT !.near_sl = @ \cup {CurId(cyc)}], cyc))
       ELSE /\ cyc' = Abort(cyc)
            /\ UNCHANGED <<calc, custom, vol, trades, perf, users, aud, bot_data>>
    /\ UNCHANGED <<calc, custom, vol, watchlist, scan, cmd>>

\* line 1154 returned (sent) or raised
near_take_profit_sent(sent) ==
    /\ cyc.pc = "tp_send"
    /\ aud[CurId(cyc)].calls < MaxCloseCalls
    /\ IF sent
       THEN CommitCycle(TradeCloseLogic(Store, [bot_data EXCEPT !.near_tp = @ \cup {CurId(cyc)}], cyc))
       ELSE /\ cyc' = Abort(cyc)
            /\ UNCHANGED <<calc, custom, vol, trades, perf, users, aud, bot_data>>
    /\ UNCHANGED <<calc, custom, vol, watchlist, scan, cmd>>

TypeOK ==
    /\ Len(trades) <= MaxRows
    /\ cyc.ncalls <= 4
    /\ Len(aud) = Len(trades)
    /\ \A i \in 1..Len(trades) : trades[i].status \in {"open", "closed"}

Init ==
    /\ trades = <<>>
    /\ perf = [s \in Symbols |-> [wins |-> 0, losses |-> 0, total_pnl_percentage |-> 0]]
    /\ users = [u \in Users |-> [trading_mode |-> "LIVE",
                                 paper_balance |-> PAPER_STARTING_BALANCE,
                                 autotrade_enabled |-> NoFlag]]
    /\ watchlist = {}
    /\ scan = ScanIdle
    /\ calc = CalcIdle
    /\ custom = [u \in Users |-> NoUserRow]
    /\ vol = VolIdle(TRUE)
    /\ bot_data = [near_sl |-> {}, near_tp |-> {}, market_state |-> "NULL"]
    /\ \E kind \in RowKinds : cyc = CycIdle(kind)
    /\ cmd = CmdIdle
    /\ aud = <<>>



\* rows are inserted only while the table, with the buy a command is in
\* the middle of, stays within cap rows
RoomFor(cap) == Len(trades) + (IF cmd.pc = "buying" THEN 1 ELSE 0) < cap

\* the /close handlers
Closing(cap) ==
    \/ \E u \in Users, id \in 1..cap, p \in CommandPrices \cup {NULL} : close_command(u, id, p)
    \/ \E u \in Users, id \in 1..cap, p \in CommandPrices \cup {NULL} : close_trade_command_start(u, id, p)
    \/ \E o \in {"ok", "TradeError", "Exception"} : close_trade_command_sell(o)
    \/ close_trade_command_db_only

\* the watchlist pass, handed RSI values from R and prices from P; F is the
\* set of store faults that can strike it
Watching(cap, R, P, F) ==
    \/ \E w \in watchlist, r \in R, p \in P, ok \in BOOLEAN, f \in F :
          (w.expired \/ RoomFor(cap)) /\ check_watchlist_for_buys(w, r, p, ok, f)
    \/ watchlist_notified

\* the handlers that open positions or change what opens them
Opening(cap) ==
    \/ \E u \in Users, s \in Symbols : RoomFor(cap) /\ buy_command_start(u, s)
    \/ \E f \in BOOLEAN, e \in EntryPrices, q \in {0, 1} : buy_command_order(f, e, q)
    \/ \E u \in Users, s \in Symbols, b \in EntryPrices :
          RoomFor(cap) /\ import_last_trade_command(u, s, b, 1)
    \/ \E u \in Users, a \in WalletOrders, p \in EntryPrices :
          RoomFor(cap) /\ import_all_command(u, a, p)
    \/ \E u \in Users, m \in {"LIVE", "PAPER"} : set_mode_command(u, m)
    \/ \E u \in Users, s \in Symbols : quest_command(u, s)
    \/ \E w \in watchlist : WatchlistAges(w)
    \/ Watching(cap, BuyRSIs, EntryPrices, {"none"})

\* the scheduled job, fed ticker prices from P and RSI values from R
JobAt(P, R) ==
    \/ scheduled_monitoring_job
    \/ \E pr \in [Symbols -> P \cup {Absent}], ca \in [Symbols -> R \cup {Absent}] : prefetch(pr, ca)
    \/ \E m \in ManualSalePrices \cup {NULL}, l \in LazyRSIs \cup {NULL} : run_monitoring_cycle(m, l)
    \/ manual_sale_notified
    \/ \E ok \in BOOLEAN : near_stop_loss_sent(ok)
    \/ \E ok \in BOOLEAN : near_take_profit_sent(ok)

Job == JobAt(Prices, RSIs)

\* /autotrade on and /autotrade off, which start and stop the scheduled job
Switching == \E e \in {0, 1} : autotrade_command(e)

(* The bot: every handler and the scheduled job. *)
Next == Closing(MaxTrades) \/ Opening(MaxTrades) \/ Switching \/ Job

Spec == Init /\ [][Next]_vars

(* The command handlers alone, with room for more rows. *)
NextCommands == Closing(MaxRows) \/ Opening(MaxRows)

SpecCommands == Init /\ [][NextCommands]_vars

(* One position's close: the positions are already open, in any of the    *)
(* ways the bot opens them; the /close handlers and the job run.          *)
OpenedBy == {"import", "buy_unfilled_qty", "watch_live", "watch_paper"}

\* no position yet; the admin has switched autotrade on (/autotrade on)
EmptyStore ==
    [trades |-> <<>>,
     perf |-> [s \in Symbols |-> [wins |-> 0, losses |-> 0, total_pnl_percentage |-> 0]],
     users |-> [u \in Users |-> [trading_mode |-> "LIVE",
                                 paper_balance |-> PAPER_STARTING_BALANCE,
                                 autotrade_enabled |-> IF u = ADMIN_USER_ID THEN 1 ELSE NoFlag]],
     aud |-> <<>>]

\* what the opening handler leaves in the store
Opened(S, u, s, how) ==
    LET buy == CHOOSE b \in EntryPrices : TRUE
        sl == StopLossOf(u, buy)
        tp == TakeProfitOf(u, buy)
        rsi == CHOOSE r \in BuyRSIs : TRUE
    IN  CASE how = "import"           -> log_trade(S, u, s, buy, sl, tp, "LIVE", 1, NULL)
          [] how = "buy_unfilled_qty" -> log_trade(S, u, s, buy, sl, tp, "LIVE", 0, NULL)
          [] how = "watch_live"       -> log_trade(S, u, s, buy, sl, tp, "LIVE", 1, rsi)
          [] how = "watch_paper"      -> log_trade(update_paper_balance(S, u, -PAPER_TRADE_SIZE_USDT),
                                                   u, s, buy, sl, tp, "PAPER", NULL, NULL)

RECURSIVE OpenAll(_, _, _, _)
OpenAll(S, owners, hows, k) ==
    IF k > Len(owners) THEN S
    ELSE OpenAll(Opened(S, owners[k], CHOOSE s \in Symbols : TRUE, hows[k]), owners, hows, k + 1)

InitClose ==
    /\ \E owners \in [1..MaxPositions -> Users], hows \in [1..MaxPositions -> OpenedBy] :
          LET S == OpenAll(EmptyStore, owners, hows, 1)
          IN  /\ trades = S.trades
              /\ perf = S.perf
              /\ users = S.users
              /\ aud = S.aud
    /\ watchlist = {}
    /\ scan = ScanIdle
    /\ calc = CalcIdle
    /\ custom = [u \in Users |-> NoUserRow]
    /\ vol = VolIdle(TRUE)
    /\ bot_data = [near_sl |-> {}, near_tp |-> {}, market_state |-> "NULL"]
    /\ \E kind \in RowKinds : cyc = CycIdle(kind)
    /\ cmd = CmdIdle

\* the job finds no RSI prefetched and fetches it inside the cycle
NextClose == Closing(MaxPositions) \/ JobAt(Prices, {})

SpecClose == InitClose /\ [][NextClose]_vars

(* The scheduled job alone, cycle after cycle, over positions that are     *)
(* already open: one price per cycle, from a wider range of prices.        *)
InitCycle ==
    /\ \E n \in 1..MaxMonitored :
          \E owners \in [1..n -> Users], hows \in [1..n -> OpenedBy] :
             LET S == OpenAll(EmptyStore, owners, hows, 1)
             IN  /\ trades = S.trades
                 /\ perf = S.perf
                 /\ users = S.users
                 /\ aud = S.aud
    /\ watchlist = {}
    /\ scan = ScanIdle
    /\ calc = CalcIdle
    /\ custom = [u \in Users |-> NoUserRow]
    /\ vol = VolIdle(TRUE)
    /\ bot_data = [near_sl |-> {}, near_tp |-> {}, market_state |-> "NULL"]
    /\ \E kind \in RowKinds : cyc = CycIdle(kind)
    /\ cmd = CmdIdle

NextCycle == JobAt(CyclePrices, CycleRSIs)

SpecCycle == InitCycle /\ [][NextCycle]_vars

(* The same job over the same positions, fed the prices around the entry   *)
(* price: a loss of exactly 1%, the zone above the stop-loss, both exits.  *)
SpecExits == InitCycle /\ [][JobAt(ExitPrices, CycleRSIs)]_vars

(* The /close handlers alone: every user has one open position, opened in  *)
(* any of the ways the bot opens them, and any user may name any id.       *)
InitManual ==
    /\ \E hows \in [1..Cardinality(Users) -> OpenedBy] :
          LET S == OpenAll(EmptyStore, [k \in 1..Cardinality(Users) |-> k], hows, 1)
          IN  /\ trades = S.trades
              /\ perf = S.perf
              /\ users = S.users
              /\ aud = S.aud
    /\ watchlist = {}
    /\ scan = ScanIdle
    /\ calc = CalcIdle
    /\ custom = [u \in Users |-> NoUserRow]
    /\ vol = VolIdle(TRUE)
    /\ bot_data = [near_sl |-> {}, near_tp |-> {}, market_state |-> "NULL"]
    /\ cyc = CycIdle("dict")
    /\ cmd = CmdIdle

NextManual == Closing(Cardinality(Users))

SpecManual == InitManual /\ [][NextManual]_vars

(* The watchlist: /quest, the passing of time and the watchlist pass, with *)
(* the store faults that can strike a promotion.                           *)
NextWatch ==
    \/ \E u \in Users, s \in Symbols : quest_command(u, s)
    \/ \E w \in watchlist : WatchlistAges(w)
    \/ \E u \in Users, m \in {"LIVE", "PAPER"} : set_mode_command(u, m)
    \/ Watching(MaxWatched, BuyRSIs \cup {NULL}, EntryPrices \cup {NULL}, StoreFaults)

SpecWatch == Init /\ [][NextWatch]_vars

(* The store API of db.py, called in any order by any client. *)
StoreCall(S) ==
    /\ Commit(S)
    /\ UNCHANGED <<calc, custom, vol, watchlist, scan, bot_data, cyc, cmd>>

NextStore ==
    \/ \E u \in Users, s \in Symbols, b \in EntryPrices, m \in {"LIVE", "PAPER"} :
          /\ Len(trades) < MaxRows
          /\ StoreCall(log_trade(Store, u, s, b, StopLossOf(u, b), TakeProfitOf(u, b), m, 1, NULL))
    \/ \E id \in 1..MaxRows, u \in Users, p \in CommandPrices :
          /\ id \in 1..Len(trades)
          /\ aud[id].calls < MaxCloseCalls
          /\ StoreCall(close_trade(Store, id, u, p, "NULL", "NULL", NoPnl).S)
    \/ \E id \in 1..MaxRows, p \in NewStops, st \in {1} :
          StoreCall(update_trade_stop_loss(Store, id, p, st))
    \/ \E id \in 1..MaxRows, p \in PeakPrices :
          StoreCall(activate_trailing_stop(Store, id, p))
    \/ \E id \in 1..MaxRows, f \in {"take_profit_price"}, v \in ManualSalePrices :
          StoreCall(update_trade_field(Store, id, f, v))
    \/ \E u \in Users : StoreCall(reset_paper_account(Store, u))

SpecStore == Init /\ [][NextStore]_vars

(* -------------------- sizing and indicator functions ------------------ *)
\* Amounts are whole USDT and fractions are whole percents; a notional is
\* given in hundredths of a USDT, which keeps balance x fraction exact.
max(a, b) == IF a >= b THEN a ELSE b
min(a, b) == IF a <= b THEN a ELSE b

\* the same sizing without the cap at the balance
get_trade_size_uncapped(account_balance, min_trade, risk_pct) ==
    max(account_balance * risk_pct, min_trade * 100)

\* risk_management.get_trade_size
get_trade_size(account_balance, min_trade, risk_pct) ==
    LET size == max(account_balance * risk_pct, min_trade * 100)
    IN  min(size, account_balance * 100)

\* trade.ai_trade_monitor, lines 976-986: the balance gate and the inline
\* sizing; opened = FALSE is the `continue` of line 979
ai_trade_size(usdt_balance) ==
    IF usdt_balance = NULL \/ usdt_balance < 5
    THEN [opened |-> FALSE, size |-> 0]
    ELSE LET s0 == usdt_balance * PER_TRADE_ALLOCATION_PERCENT
             s1 == IF s0 < 5 * 100 THEN 5 * 100 ELSE s0
             s2 == IF usdt_balance * 100 < s1 THEN usdt_balance * 100 ELSE s1
         IN  [opened |-> TRUE, size |-> s2]

\* the sequences over S of length 1..n
RECURSIVE SeqsUpTo(_, _)
SeqsUpTo(S, n) ==
    IF n = 0 THEN {}
    ELSE SeqsUpTo(S, n - 1) \cup [1..n -> S]

\* np.diff
diff(a) == [k \in 1..(Len(a) - 1) |-> a[k + 1] - a[k]]

\* a[:n]
Head_n(a, n) == SubSeq(a, 1, min(n, Len(a)))

\* a[keep].sum()
RECURSIVE SumWhere(_, _)
SumWhere(a, nonneg) ==
    IF a = <<>> THEN 0
    ELSE (IF (a[1] >= 0) = nonneg THEN a[1] ELSE 0) + SumWhere(Tail(a), nonneg)

\* lines 149-157 of trade.get_rsi on the closing prices of the candles.
\* up/down is gains/losses (the period cancels), so that
\* 100 - 100 / (1 + rs) is 100 * gains / (gains + losses), rounded down here.
rsi_of(closes, period) ==
    LET seed == Head_n(diff(closes), period + 1)
        gains == SumWhere(seed, TRUE)
        losses == - SumWhere(seed, FALSE)
    IN  IF losses # 0
        THEN (100 * gains) \div (gains + losses)
        ELSE \* rs = 0: 100 - 100 / 1
             0

\* the try block of trade.get_rsi, lines 145-157.  outcome is what
\* client.get_historical_klines does: it returns the candles, raises
\* BinanceAPIException or another exception, or client is None and the
\* attribute lookup raises AttributeError.  exc is the exception that leaves
\* the block, none says that None is returned.
get_rsi_try(outcome, closes, period) ==
    IF outcome = "no_client"
    THEN [exc |-> "AttributeError", none |-> FALSE, value |-> 0]
    ELSE IF outcome # "ok"
    THEN [exc |-> outcome, none |-> FALSE, value |-> 0]
    ELSE IF Len(closes) < period
    THEN [exc |-> "none", none |-> TRUE, value |-> 0]
    ELSE [exc |-> "none", none |-> FALSE, value |-> rsi_of(closes, period)]

\* the same function without its `except Exception` clause
get_rsi_api_errors_only(outcome, closes, period) ==
    LET r == get_rsi_try(outcome, closes, period)
    IN  IF r.exc = "none" THEN [raised |-> FALSE, none |-> r.none, value |-> r.value]
        ELSE IF r.exc = "BinanceAPIException"
        THEN [raised |-> FALSE, none |-> TRUE, value |-> 0]
        ELSE [raised |-> TRUE, none |-> FALSE, value |-> 0]

\* trade.get_rsi: what the caller gets.  Lines 158-163: except
\* BinanceAPIException and except Exception both return None.
get_rsi(outcome, closes, period) ==
    LET r == get_rsi_try(outcome, closes, period)
    IN  IF r.exc = "none" THEN [raised |-> FALSE, none |-> r.none, value |-> r.value]
        ELSE IF r.exc = "BinanceAPIException"
        THEN [raised |-> FALSE, none |-> TRUE, value |-> 0]
        ELSE \* AttributeError and every other Exception
             [raised |-> FALSE, none |-> TRUE, value |-> 0]

abs(x) == IF x >= 0 THEN x ELSE -x

\* the candles k of a kline series: k[2], k[3], k[4]
Candles == {c \in [high : Closes, low : Closes, close : Closes] :
               c.low <= c.close /\ c.close <= c.high}

\* a[-n:]
Last_n(a, n) == SubSeq(a, max(1, Len(a) - n + 1), Len(a))

RECURSIVE Sum(_)
Sum(a) == IF a = <<>> THEN 0 ELSE a[1] + Sum(Tail(a))

\* indicators.calc_atr, line 7.  np.maximum(x1, x2, out): the third
\* positional argument is the array the result is written to, so the
\* element-wise maximum is taken over the first two arrays only.
true_ranges(klines) ==
    [k \in 1..(Len(klines) - 1) |->
        max(klines[k + 1].high - klines[k + 1].low,
            abs(klines[k + 1].high - klines[k].close))]

\* indicators.calc_atr: np.mean(trs[-period:]), given as the sum and the
\* number of the ranges averaged
calc_atr(klines, period) ==
    LET trs == Last_n(true_ranges(klines), period)
    IN  [sum |-> Sum(trs), n |-> Len(trs)]

\* risk_management.is_market_crash_or_big_buyer(prices); btc_now and
\* btc_15min_ago are prices['BTCUSDT'] and prices['BTCUSDT_15min_ago'],
\* Absent when the key is missing.  x < prev * 0.95 is 100 x < 95 prev.
is_market_crash_or_big_buyer(btc_now, btc_15min_ago) ==
    IF btc_now = Absent THEN FALSE
    ELSE LET btc_prev == IF btc_15min_ago = Absent THEN btc_now ELSE btc_15min_ago
         IN  IF btc_prev # 0 /\ btc_now * 100 < btc_prev * 95 THEN TRUE
             ELSE IF btc_prev # 0 /\ btc_now * 100 > btc_prev * 105 THEN TRUE
             ELSE FALSE

Called(fn, args, out) ==
    /\ calc' = [fn |-> fn, args |-> args, out |-> out]
    /\ UNCHANGED <<custom, vol, trades, perf, users, watchlist, scan, bot_data, cyc, cmd, aud>>

(* The sizing and indicator functions, called with any arguments. *)
NextCalc ==
    \/ /\ calc = CalcIdle
       /\ \E b \in Balances, m \in MinTrades, r \in RiskPercents :
             Called("get_trade_size", <<b, m, r>>, get_trade_size(b, m, r))
    \/ /\ calc = CalcIdle
       /\ \E b \in Balances :
             Called("ai_trade_monitor", <<b>>, ai_trade_size(b))
    \/ /\ calc = CalcIdle
       /\ \E o \in KlineOutcomes, c \in SeqsUpTo(Closes, MaxCloses), p \in Periods :
             Called("get_rsi", <<o, c, p>>, get_rsi(o, c, p))
    \/ /\ calc = CalcIdle
       /\ \E k \in SeqsUpTo(Candles, MaxCloses), p \in Periods :
             Called("calc_atr", <<k, p>>, calc_atr(k, p))
    \/ /\ calc = CalcIdle
       /\ \E n \in BtcPrices \cup {Absent}, a \in BtcPrices \cup {Absent} :
             Called("is_market_crash_or_big_buyer", <<n, a>>,
                    is_market_crash_or_big_buyer(n, a))

SpecCalc == Init /\ [][NextCalc]_vars

(* --------------------------- custom settings -------------------------- *)
\* db.SETTING_TO_COLUMN_MAP
SETTING_TO_COLUMN_MAP ==
    [rsi_buy |-> "custom_rsi_buy", rsi_sell |-> "custom_rsi_sell",
     stop_loss |-> "custom_stop_loss",
     trailing_activation |-> "custom_trailing_activation",
     trailing_drop |-> "custom_trailing_drop"]

\* the key of the settings dict that db.get_user_effective_settings
\* overrides from each custom_* column
SettingOfColumn ==
    [custom_rsi_buy |-> "RSI_BUY_THRESHOLD", custom_rsi_sell |-> "RSI_SELL_THRESHOLD",
     custom_stop_loss |-> "STOP_LOSS_PERCENTAGE",
     custom_trailing_activation |-> "TRAILING_PROFIT_ACTIVATION_PERCENT",
     custom_trailing_drop |-> "TRAILING_STOP_DROP_PERCENT"]

\* db.get_or_create_user: INSERT INTO users (user_id) when there is no row
get_or_create_user(C, u) ==
    IF C[u].exists THEN C ELSE [C EXCEPT ![u].exists = TRUE]

\* the table after db.get_user_tier: the admin is answered without a look
\* at the table, for anyone else the row is read through get_or_create_user
AfterGetUserTier(C, u) ==
    IF u = ADMIN_USER_ID THEN C ELSE get_or_create_user(C, u)

\* what db.get_user_effective_settings(u) returns on table C: the tier
\* defaults, overridden by the custom_* columns of the row that are not NULL
EffectiveSettings(C, u) ==
    LET settings == get_user_effective_settings(u)
        user_data == AfterGetUserTier(C, u)[u]
        cols == {c \in DOMAIN SettingOfColumn : user_data[c] # NULL}
        over == {SettingOfColumn[c] : c \in cols}
    IN  IF ~user_data.exists THEN settings
        ELSE [k \in DOMAIN settings \cup over |->
                 IF k \in over
                 THEN user_data[CHOOSE c \in cols : SettingOfColumn[c] = k]
                 ELSE settings[k]]

\* db.update_user_setting: UPDATE users SET <column> = ? WHERE user_id = ?
\* changes the rows that exist; value NULL is None
update_user_setting(C, u, setting_key, value) ==
    IF setting_key \notin DOMAIN SETTING_TO_COLUMN_MAP
    THEN [C |-> C, ok |-> FALSE]
    ELSE [C |-> IF C[u].exists
                THEN [C EXCEPT ![u][SETTING_TO_COLUMN_MAP[setting_key]] = value]
                ELSE C,
          ok |-> TRUE]

\* a call of the settings API: the table afterwards and the call's record
SettingsCall(C, fn, args, out) ==
    /\ custom' = C
    /\ calc' = [fn |-> fn, args |-> args, out |-> out]
    /\ UNCHANGED <<vol, trades, perf, users, watchlist, scan, bot_data, cyc, cmd, aud>>

(* The settings API of db.py, called in any order. *)
NextSettings ==
    \/ \E u \in Users :
          /\ ~custom[u].exists
          /\ custom' = get_or_create_user(custom, u)
          /\ UNCHANGED <<calc, vol, trades, perf, users, watchlist, scan, bot_data, cyc, cmd, aud>>
    \/ \E u \in Users, k \in SettingKeys, v \in SettingValues \cup {NULL} :
          LET r == update_user_setting(custom, u, k, v)
          IN  SettingsCall(r.C, "update_user_setting", <<u, k, v>>, r.ok)
    \/ \E u \in Users :
          SettingsCall(AfterGetUserTier(custom, u), "get_user_effective_settings", <<u>>,
                       EffectiveSettings(custom, u))

SpecSettings == Init /\ [][NextSettings]_vars

(* ------------------------ market volatility alert -------------------- *)
\* the market_state the function reads: a missing key is initialised to CALM
StoredMarketState(b) == IF b.market_state = "NULL" THEN "CALM" ELSE b.market_state

\* lines 722-737 of trade.check_btc_volatility_and_alert, with
\* ((new - old) / old) * 100 > t written (new - old) * 100 > t * old
Classify(old_price, new_price) ==
    IF (new_price - old_price) * 100 > BTC_ALERT_THRESHOLD_PERCENT * old_price
    THEN "BTC_PUMP"
    ELSE IF (new_price - old_price) * 100 < - BTC_ALERT_THRESHOLD_PERCENT * old_price
    THEN "BTC_DUMP"
    ELSE "CALM"

\* the same choice without the comparison with the stored state
AlertFor_every_check(current_state, last_state) ==
    IF current_state = "CALM"
    THEN IF last_state # "CALM" THEN "stabilizing" ELSE "NULL"
    ELSE (IF current_state = "BTC_PUMP" THEN "pumping" ELSE "dumping")

\* lines 731-753: the alert_message chosen, by kind
AlertFor(current_state, last_state) ==
    IF current_state = "CALM"
    THEN IF last_state # "CALM" THEN "stabilizing" ELSE "NULL"
    ELSE IF last_state # current_state
    THEN (IF current_state = "BTC_PUMP" THEN "pumping" ELSE "dumping")
    ELSE "NULL"

\* trade.check_btc_volatility_and_alert up to its await (line 757) or to its
\* end.  outcome is what client.get_historical_klines does: two candles
\* ("ok"), fewer ("short"), an exception, or client is None.
check_btc_volatility_and_alert(outcome, old_price, new_price) ==
    /\ vol.pc = "idle"
    /\ IF outcome # "ok" \/ old_price = 0
       THEN \* the early return of line 715, or an exception (ZeroDivisionError
            \* for a zero close) logged by lines 766-769
            /\ vol' = VolIdle(vol.chat_id)
            /\ UNCHANGED bot_data
       ELSE LET last_state == StoredMarketState(bot_data)
                current_state == Classify(old_price, new_price)
                alert_message == AlertFor(current_state, last_state)
                ran == [VolIdle(vol.chat_id) EXCEPT
                            !.percent_change = ((new_price - old_price) * 100) \div old_price,
                            !.current_state = current_state,
                            !.alert = alert_message]
            IN  IF alert_message # "NULL" /\ vol.chat_id
                THEN /\ vol' = [ran EXCEPT !.pc = "sending"]
                     /\ bot_data' = [bot_data EXCEPT !.market_state = last_state]
                ELSE /\ vol' = ran
                     /\ bot_data' = [bot_data EXCEPT !.market_state =
                                         IF current_state # last_state
                                         THEN current_state ELSE last_state]
    /\ UNCHANGED <<calc, custom, trades, perf, users, watchlist, scan, cyc, cmd, aud>>

\* the same continuation recording the new state whatever the send did
market_alert_sent_always_advances(sent) ==
    /\ vol.pc = "sending"
    /\ vol' = [vol EXCEPT !.pc = "idle", !.delivered = sent]
    /\ bot_data' = [bot_data EXCEPT !.market_state = vol.current_state]
    /\ UNCHANGED <<calc, custom, trades, perf, users, watchlist, scan, cyc, cmd, aud>>

\* lines 757-761: send_message returned (sent) or raised
market_alert_sent(sent) ==
    /\ vol.pc = "sending"
    /\ vol' = [vol EXCEPT !.pc = "idle", !.delivered = sent]
    /\ bot_data' = IF sent
                   THEN [bot_data EXCEPT !.market_state = vol.current_state]
                   ELSE bot_data
    /\ UNCHANGED <<calc, custom, trades, perf, users, watchlist, scan, cyc, cmd, aud>>

(* The volatility check, run again and again, with and without a CHAT_ID. *)
InitVol ==
    /\ trades = <<>>
    /\ perf = [s \in Symbols |-> [wins |-> 0, losses |-> 0, total_pnl_percentage |-> 0]]
    /\ users = [u \in Users |-> [trading_mode |-> "LIVE",
                                 paper_balance |-> PAPER_STARTING_BALANCE,
                                 autotrade_enabled |-> NoFlag]]
    /\ watchlist = {}
    /\ scan = ScanIdle
    /\ calc = CalcIdle
    /\ custom = [u \in Users |-> NoUserRow]
    /\ \E chat_id \in BOOLEAN : vol = VolIdle(chat_id)
    /\ bot_data = [near_sl |-> {}, near_tp |-> {}, market_state |-> "NULL"]
    /\ cyc = CycIdle("dict")
    /\ cmd = CmdIdle
    /\ aud = <<>>

NextVol ==
    \/ \E o \in CandleOutcomes, old \in PreviousCloses, new \in HourlyCloses :
          check_btc_volatility_and_alert(o, old, new)
    \/ \E ok \in BOOLEAN : market_alert_sent(ok)

SpecVol == InitVol /\ [][NextVol]_vars

(* --------------------------- the AI monitor --------------------------- *)
\* get_market_sentiment inside trade.ai_trade_monitor (lines 905-921) on the
\* daily candles: fewer than 50 candles and any exception default to
\* BULLISH; btc_price > sum(closes) / 50 is 50 * btc_price > sum(closes)
get_market_sentiment(klines) ==
    LET outcome == klines[1]
        btc_price == klines[2]
        closes_sum == klines[3]
    IN  IF outcome = "short" THEN "BULLISH"
        ELSE IF outcome = "Exception" THEN "BULLISH"
        ELSE IF btc_price * 50 > closes_sum THEN "BULLISH"
        ELSE "BEARISH"

\* the gates without the sentiment filter
ai_returns_early_no_sentiment(shield, autotrade, market_sentiment) ==
    IF shield THEN TRUE
    ELSE IF ~autotrade THEN TRUE
    ELSE FALSE

\* the three early returns of trade.ai_trade_monitor, in the order of the
\* code: lines 897-899, 900-902 and 923-926
ai_returns_early(shield, autotrade, market_sentiment) ==
    IF shield THEN TRUE
    ELSE IF ~autotrade THEN TRUE
    ELSE market_sentiment = "BEARISH"

\* one pass of the loop of trade.ai_trade_monitor (lines 931-1010) for
\* symbol; r is [S, buys], buys counting the place_buy_order calls of the
\* run.  ind is indicator_cache[symbol] as <<rsi, lower band, macd,
\* macd_signal>>, Absent standing for None; the order fills at current_price.
ai_monitor_symbol(r, C, symbol, current_price, ind, usdt_balance, order) ==
    LET settings == EffectiveSettings(C, ADMIN_USER_ID)
        rsi == ind[1]
        lower_band == ind[2]
        macd == ind[3]
        macd_signal == ind[4]
        sized == ai_trade_size(usdt_balance)
        entry_price == current_price
    IN  IF is_trade_open(r.S, ADMIN_USER_ID, symbol)
           \/ is_on_watchlist(ADMIN_USER_ID, symbol) THEN r
        ELSE IF rsi = Absent \/ lower_band = Absent \/ current_price = Absent
                \/ macd = Absent \/ macd_signal = Absent THEN r
        ELSE IF ~(rsi < settings.RSI_BUY_THRESHOLD) THEN r
        ELSE IF ~(macd > macd_signal) THEN r
        ELSE IF ~(current_price < lower_band) THEN r
        ELSE IF ~sized.opened THEN r
        ELSE IF order = "TradeError" THEN [r EXCEPT !.buys = @ + 1]
        ELSE [S |-> log_trade(r.S, ADMIN_USER_ID, symbol, entry_price,
                              (entry_price * (100 - settings.STOP_LOSS_PERCENTAGE)) \div 100,
                              (entry_price * (100 + settings.PROFIT_TARGET_PERCENTAGE)) \div 100,
                              "LIVE", sized.size, rsi),
              buys |-> r.buys + 1]

\* for symbol in monitored_coins
RECURSIVE ai_monitor_loop(_, _, _, _, _, _, _)
ai_monitor_loop(r, C, coins, current_price, ind, usdt_balance, order) ==
    IF coins = <<>> THEN r
    ELSE ai_monitor_loop(ai_monitor_symbol(r, C, Head(coins), current_price, ind,
                                           usdt_balance, order),
                         C, Tail(coins), current_price, ind, usdt_balance, order)

\* trade.ai_trade_monitor(context, prices, indicator_cache), one whole run:
\* calc records its inputs and, in out, what the gates saw and how many
\* buy orders the run asked for
ai_trade_monitor(btc_now, btc_15min_ago, klines, ind, usdt_balance, order) ==
    LET shield == is_market_crash_or_big_buyer(btc_now, btc_15min_ago)
        autotrade == get_autotrade_status_db_access(ADMIN_USER_ID)
        market_sentiment == get_market_sentiment(klines)
        r == IF ai_returns_early(shield, autotrade, market_sentiment)
             THEN [S |-> Store, buys |-> 0]
             ELSE ai_monitor_loop([S |-> Store, buys |-> 0], custom, AI_MONITOR_COINS,
                                  btc_now, ind, usdt_balance, order)
    IN  /\ cmd.pc = "idle"
        /\ trades' = r.S.trades
        /\ aud' = r.S.aud
        /\ calc' = [fn |-> "ai_trade_monitor_run",
                    args |-> <<btc_now, btc_15min_ago, klines, ind, usdt_balance, order>>,
                    out |-> [buys |-> r.buys]]
        /\ UNCHANGED <<custom, vol, perf, users, watchlist, scan, bot_data, cyc, cmd>>

(* The AI monitor run again and again on any market, the admin switching
   autotrade on and off in between. *)
InitAi ==
    /\ trades = <<>>
    /\ perf = [s \in Symbols |-> [wins |-> 0, losses |-> 0, total_pnl_percentage |-> 0]]
    /\ users = [u \in Users |-> [trading_mode |-> "LIVE",
                                 paper_balance |-> PAPER_STARTING_BALANCE,
                                 autotrade_enabled |-> NoFlag]]
    /\ watchlist = {}
    /\ scan = ScanIdle
    /\ calc = CalcIdle
    /\ custom = [u \in Users |-> NoUserRow]
    /\ vol = VolIdle(TRUE)
    /\ bot_data = [near_sl |-> {}, near_tp |-> {}, market_state |-> "NULL"]
    /\ cyc = CycIdle("dict")
    /\ cmd = CmdIdle
    /\ aud = <<>>

SpecAi ==
    /\ InitAi
    /\ [][\/ \E n \in ShieldNow \cup {Absent}, a \in ShieldBefore \cup {Absent},
               k \in DailyKlines, rsi \in AiRSIs \cup {Absent}, sig \in MacdSignals,
               lb \in LowerBands, b \in AiBalances, o \in BuyOutcomes :
                ai_trade_monitor(n, a, k, <<rsi, lb, 1, sig>>, b, o)
          \/ Switching]_vars

(* ------------------------------- claims ------------------------------- *)
Ids == 1..Len(trades)

ClosedWith(s, wl) ==
    {i \in Ids : /\ trades[i].status = "closed"
                 /\ trades[i].coin_symbol = s
                 /\ trades[i].win_loss = wl}

\* C1: however many times db.close_trade is invoked on a position's id, by
\* the scheduled cycle and by manual closes in any interleaving, the row is
\* closed exactly once, exactly one invocation returns True and the
\* coin_performance row of the symbol is incremented exactly once.
C1_CloseExactlyOnce ==
    /\ \A id \in Ids :
          /\ aud[id].oks <= 1
          /\ aud[id].ledger = aud[id].oks
          /\ aud[id].calls >= 1 => aud[id].oks = 1
          /\ trades[id].status = "closed" <=> aud[id].oks = 1
    /\ \A s \in Symbols :
          /\ perf[s].wins = Cardinality(ClosedWith(s, "win"))
          /\ perf[s].losses = Cardinality(ClosedWith(s, "loss"))

\* a position on which close_trade was invoked more than once
C1_Witness ==
    \E id \in Ids :
        /\ aud[id].calls >= 2
        /\ aud[id].oks = 1
        /\ trades[id].status = "closed"

\* C2: the actor whose db.close_trade affected no row does nothing more: no
\* update_daily_pl call, no 'Trade Closed' message, no paper credit.
C2_LoserHasNoSideEffect ==
    \A id \in Ids :
        /\ aud[id].pl_lost = 0
        /\ aud[id].lost_msgs = 0
        /\ aud[id].lost_credits = 0

\* C3: at most one open row per (user_id, coin_symbol).
C3_OneOpenPerUserSymbol ==
    \A i, j \in Ids :
        (/\ i # j
         /\ trades[i].status = "open"
         /\ trades[j].status = "open"
         /\ trades[i].user_id = trades[j].user_id)
        => trades[i].coin_symbol # trades[j].coin_symbol

\* C4: when a cycle ends, every position it was given whose fetched price
\* was at or below its stop-loss price is closed with reason Stop-Loss.
C4_StopLossCloses ==
    [][(cyc.pc # "idle" /\ cyc'.pc = "idle") =>
          \A k \in 1..Len(cyc.rows) :
              LET t == cyc.rows[k].row
                  price == cyc.prices[t.coin_symbol]
              IN  (price # Absent /\ price <= t.stop_loss_price) =>
                      /\ trades'[cyc.rows[k].id].status = "closed"
                      /\ trades'[cyc.rows[k].id].close_reason = "Stop-Loss"]_vars

\* C5: in one cycle, for one position, at most one close action is
\* performed: the db.close_trade calls made by a step of the job, added to
\* those the iteration had made before it was suspended, are at most one.
C5_OneCloseActionPerCycle ==
    [][(cyc' # cyc /\ cyc.pc \in {"eval", "manual_note", "sl_send", "tp_send"}) =>
          LET id == CurId(cyc)
              before == IF cyc.pc = "eval" THEN 0 ELSE cyc.ncalls
          IN  before + (aud'[id].calls - aud[id].calls) <= 1]_vars

\* C6: a position that a step of the cycle closes was closed by an exit
\* rule; if no rule fires the position is still open, PAPER or LIVE.
C6_NoRuleNoClose ==
    [][\A id \in Ids :
          (/\ cyc' # cyc
           /\ trades[id].status = "open"
           /\ trades'[id].status = "closed")
          => trades'[id].close_reason \in {"Stop-Loss", "RSI Exit", "Manual Binance Sale"}]_vars

\* C7: no LIVE position with a positive quantity is closed by a stop-loss,
\* an RSI exit or a /close unless a sell order was placed for it.
C7_ClosedOnlyAfterSell ==
    \A id \in Ids :
        (/\ trades[id].status = "closed"
         /\ trades[id].mode = "LIVE"
         /\ trades[id].quantity > 0
         /\ trades[id].close_reason \in {"Stop-Loss", "RSI Exit", "Manual Close", "NULL"})
        => aud[id].sells >= 1

\* the step in which a manual close of a LIVE position ends without a
\* placed sell order
SellFailed == cmd.pc = "selling" /\ cmd'.pc = "idle" /\ aud'[cmd.id].sells = aud[cmd.id].sells

\* C8: when place_sell_order fails in a manual close of a LIVE position,
\* the step changes no row, ledger or balance and makes no close_trade or
\* daily-P/L call; the owner is told of the failure (failed_id), and while
\* the position is open a later /close is accepted.
C8_FailedSellLeavesOpen ==
    /\ [][SellFailed =>
            /\ trades' = trades
            /\ perf' = perf
            /\ users' = users
            /\ aud' = aud
            /\ cmd'.failed_id = cmd.id]_vars
    /\ [](\A id \in Ids :
            (/\ cmd.failed_id = id
             /\ trades[id].status = "open")
            => \A p \in CommandPrices :
                  ENABLED (/\ close_trade_command_start(trades[id].user_id, id, p)
                           /\ cmd'.pc = "selling"))

\* a sell has just failed and the position is open, untouched
C8_Witness ==
    \E id \in Ids :
        /\ cmd.failed_id = id
        /\ aud[id].calls = 0
        /\ aud[id].sells = 0
        /\ trades[id].status = "open"

\* C9: every step that takes a row from open to closed upserts the
\* coin_performance row of its symbol exactly once.
C9_LedgerOnEveryClose ==
    [][\A id \in Ids :
          (trades[id].status = "open" /\ trades'[id].status = "closed")
          => aud'[id].ledger = aud[id].ledger + 1]_vars

\* C10: no store operation changes the status, stop-loss price, take-profit
\* price, peak price, ladder stage, sell price or close reason of a closed row.
C10_ClosedIsFrozen ==
    [][\A id \in Ids :
          trades[id].status = "closed" =>
              /\ trades'[id].status = trades[id].status
              /\ trades'[id].stop_loss_price = trades[id].stop_loss_price
              /\ trades'[id].take_profit_price = trades[id].take_profit_price
              /\ trades'[id].peak_price = trades[id].peak_price
              /\ trades'[id].current_dsl_stage = trades[id].current_dsl_stage
              /\ trades'[id].sell_price = trades[id].sell_price
              /\ trades'[id].close_reason = trades[id].close_reason]_vars

\* C11: once a position's peak_price is set, every later write to it leaves
\* it greater than or equal to its previous value.
C11_PeakNeverDecreases ==
    [][\A id \in Ids :
          trades[id].peak_price # NULL =>
              trades'[id].peak_price >= trades[id].peak_price]_vars

\* C12: no write lowers a position's ladder stage or its stop-loss price.
C12_StopNeverDecreases ==
    [][\A id \in Ids :
          /\ trades'[id].current_dsl_stage >= trades[id].current_dsl_stage
          /\ trades'[id].stop_loss_price >= trades[id].stop_loss_price]_vars

\* the step in which a cycle of the scheduled job ends
CycleEnds == cyc.pc # "idle" /\ cyc'.pc = "idle"

\* C13: for a position of an account with trailing enabled, a cycle whose
\* price is above the stop-loss arms trailing (peak_price = price) when the
\* position is not armed and its P/L has reached the activation percentage,
\* and closes it with reason TRAILING_STOP when it is armed and the price is
\* at most peak x (1 - drop/100).
C13_TrailingStop ==
    [][CycleEnds =>
          \A k \in 1..Len(cyc.rows) :
              LET t == cyc.rows[k].row
                  id == cyc.rows[k].id
                  price == cyc.prices[t.coin_symbol]
                  settings == get_user_effective_settings(t.user_id)
              IN  (/\ settings.USE_TRAILING_TAKE_PROFIT
                   /\ price # Absent
                   /\ price > t.stop_loss_price)
                  => IF t.peak_price = NULL
                     THEN PnlPercent(price, t.buy_price) >=
                              settings.TRAILING_PROFIT_ACTIVATION_PERCENT
                          => trades'[id].peak_price = price
                     ELSE price * 100 <=
                              t.peak_price * (100 - settings.TRAILING_STOP_DROP_PERCENT)
                          => /\ trades'[id].status = "closed"
                             /\ trades'[id].close_reason = "TRAILING_STOP"]_vars

\* C14: a cycle whose price is at or above the take-profit price of a
\* position that is not armed (and is not being armed or stopped out in
\* that cycle) closes the position with reason TAKE_PROFIT.
C14_TakeProfitCloses ==
    [][CycleEnds =>
          \A k \in 1..Len(cyc.rows) :
              LET t == cyc.rows[k].row
                  id == cyc.rows[k].id
                  price == cyc.prices[t.coin_symbol]
                  settings == get_user_effective_settings(t.user_id)
                  arming == /\ settings.USE_TRAILING_TAKE_PROFIT
                            /\ PnlPercent(price, t.buy_price) >=
                                   settings.TRAILING_PROFIT_ACTIVATION_PERCENT
              IN  (/\ price # Absent
                   /\ t.peak_price = NULL
                   /\ price > t.stop_loss_price
                   /\ price >= t.take_profit_price
                   /\ ~arming)
                  => /\ trades'[id].status = "closed"
                     /\ trades'[id].close_reason = "TAKE_PROFIT"]_vars

\* C15: an open position with entry 100 and stop-loss 95 whose account has
\* trailing disabled, with no RSI reversal and its take-profit above the
\* prices fed, is still open after a cycle at 100 or at 98 and is closed by
\* the cycle at 94 with reason Stop-Loss and a recorded P/L of -6%.
C15_ScenarioA ==
    [][CycleEnds =>
          \A id \in Ids :
              LET t == trades[id]
                  price == cyc.prices[t.coin_symbol]
                  settings == get_user_effective_settings(t.user_id)
                  reversal == /\ t.rsi_at_buy # NULL
                              /\ t.rsi_at_buy > settings.RSI_SELL_THRESHOLD
                              /\ cyc.cache[t.coin_symbol] # Absent
                              /\ cyc.cache[t.coin_symbol] < settings.RSI_SELL_THRESHOLD
              IN  (/\ t.status = "open"
                   /\ t.buy_price = 100
                   /\ t.stop_loss_price = 95
                   /\ t.take_profit_price > 100
                   /\ ~settings.USE_TRAILING_TAKE_PROFIT
                   /\ ~reversal)
                  => /\ price \in {100, 98} => trades'[id].status = "open"
                     /\ price = 94 => /\ trades'[id].status = "closed"
                                      /\ trades'[id].close_reason = "Stop-Loss"
                                      /\ trades'[id].pnl_percentage = -6]_vars

\* C16: the pass step that takes an entry past its timeout off the
\* watchlist removes it for good and opens no position, debits no balance
\* and touches no row or ledger; it only goes on to the expiry notice.
C16_ExpiredNotPromoted ==
    [][\A w \in watchlist :
          (w.expired /\ w \notin watchlist') =>
              /\ trades' = trades
              /\ perf' = perf
              /\ users' = users
              /\ aud' = aud
              /\ ~\E x \in watchlist' : /\ x.user_id = w.user_id
                                        /\ x.coin_symbol = w.coin_symbol
              /\ scan'.pc = "expiry_note"]_vars

\* an expired entry was removed by a pass that held an RSI above the
\* recovery threshold and a price for it; no position was opened
C16_Witness ==
    /\ scan.pc = "expiry_note"
    /\ scan.rsi # NULL
    /\ scan.rsi > RSI_BUY_RECOVERY_THRESHOLD
    /\ scan.price # NULL
    /\ scan.item.logged = 0
    /\ scan.item.debits = 0
    /\ ~is_on_watchlist(scan.item.user_id, scan.item.coin_symbol)
    /\ ~is_trade_open(Store, scan.item.user_id, scan.item.coin_symbol)

\* C17: a pass step that logs a trade for an entry finds that no trade
\* was logged for it before, one that debits the paper balance finds no
\* earlier debit, and one that expires it finds neither.
C17_PromotedOrExpiredOnce ==
    [][\A w \in watchlist :
          w \notin watchlist' =>
              /\ Len(trades') > Len(trades) => w.logged = 0
              /\ users'[w.user_id].paper_balance < users[w.user_id].paper_balance
                    => w.debits = 0
              /\ (w.expired /\ scan'.pc = "expiry_note")
                    => (w.logged = 0 /\ w.debits = 0)]_vars

\* C18: an entry is promoted only by a pass that holds an RSI above the
\* recovery threshold, and when a scheduled cycle ends no entry that was
\* past its timeout when the cycle began is still on the watchlist.
C18_ExpiredRemovedByCycle ==
    [][/\ (scan.pc = "idle" /\ scan'.pc \in {"live_note", "paper_note"})
            => scan'.rsi > RSI_BUY_RECOVERY_THRESHOLD
       /\ CycleEnds =>
            \A w \in watchlist' : <<w.user_id, w.coin_symbol>> \notin cyc.due]_vars

\* C19: the iteration over a position whose symbol has no price in the
\* cycle's snapshot does nothing but move on to the next position: no
\* close_trade call, no alert, no change of any row, ledger, balance or
\* alert flag.
C19_NoPriceSkips ==
    [][(/\ cyc.pc = "eval"
        /\ cyc' # cyc
        /\ cyc.prices[CurRow(cyc).coin_symbol] = Absent)
       => /\ trades' = trades
          /\ perf' = perf
          /\ users' = users
          /\ aud' = aud
          /\ bot_data' = bot_data
          /\ cyc' = Advance(cyc)]_vars

\* the first position of a cycle over mappings was skipped for want of a
\* price, untouched, and the cycle is at its second position
C19_Witness ==
    /\ cyc.pc = "eval"
    /\ cyc.kind = "dict"
    /\ cyc.i = 2
    /\ cyc.prices[cyc.rows[1].row.coin_symbol] = Absent
    /\ trades[cyc.rows[1].id] = cyc.rows[1].row
    /\ aud[cyc.rows[1].id].calls = 0

\* C20: a cycle ends only after the last of the positions it was given
\* has been evaluated, whatever happened while evaluating the earlier ones.
C20_CycleEvaluatesAll ==
    [][CycleEnds => cyc.i = Len(cyc.rows)]_vars
\* C21: whatever happens to the send_message of a near-stop-loss or
\* near-take-profit alert, the cycle goes on as after a delivery: the rows
\* and the position of the cycle are those the delivered alert leads to.
C21_SendFailureChangesNothing ==
    [][/\ (cyc.pc = "sl_send" /\ cyc' # cyc) =>
            LET r == NearTakeProfit(Store, [bot_data EXCEPT !.near_sl = @ \cup {CurId(cyc)}], cyc)
            IN  trades' = r.S.trades /\ cyc' = r.c
       /\ (cyc.pc = "tp_send" /\ cyc' # cyc) =>
            LET r == TradeCloseLogic(Store, [bot_data EXCEPT !.near_tp = @ \cup {CurId(cyc)}], cyc)
            IN  trades' = r.S.trades /\ cyc' = r.c]_vars

\* C23: while the positions of a cycle are being evaluated the fetched
\* prices do not change, and an RSI value that a symbol has in the cache
\* stays the one every later position on that symbol is evaluated against.
C23_OneSnapshotPerCycle ==
    [][(cyc.pc \in {"eval", "manual_note", "sl_send", "tp_send"} /\ cyc'.pc # "idle") =>
          /\ cyc'.prices = cyc.prices
          /\ cyc'.rows = cyc.rows
          /\ \A s \in Symbols : cyc.cache[s] # Absent => cyc'.cache[s] = cyc.cache[s]]_vars

\* the second of two positions on one symbol is about to be evaluated; the
\* first was closed in this cycle at the fetched price
C23_Witness ==
    /\ cyc.pc = "eval"
    /\ cyc.kind = "dict"
    /\ cyc.i = 2
    /\ cyc.rows[1].row.coin_symbol = cyc.rows[2].row.coin_symbol
    /\ cyc.prices[cyc.rows[2].row.coin_symbol] # Absent
    /\ cyc.cache[cyc.rows[2].row.coin_symbol] # Absent
    /\ trades[cyc.rows[1].id].status = "closed"
    /\ trades[cyc.rows[1].id].sell_price = cyc.prices[cyc.rows[1].row.coin_symbol]
    /\ trades[cyc.rows[2].id].status = "open"

\* C24: the step that inserts a PAPER row debits the owner's paper balance
\* by the notional and records quantity = notional / entry price; the step
\* that closes a PAPER row credits quantity x close price.
C24_PaperAccounting ==
    [][\A id \in 1..Len(trades') :
          trades'[id].mode = "PAPER" =>
              LET u == trades'[id].user_id
                  quantity == PAPER_TRADE_SIZE_USDT \div trades'[id].buy_price
              IN  /\ id > Len(trades) =>
                        /\ users'[u].paper_balance
                              = users[u].paper_balance - PAPER_TRADE_SIZE_USDT
                        /\ trades'[id].quantity = quantity
                  /\ (id <= Len(trades) /\ trades[id].status = "open"
                                        /\ trades'[id].status = "closed") =>
                        users'[u].paper_balance
                            = users[u].paper_balance + quantity * trades'[id].sell_price]_vars

\* C25: the notional of a LIVE position is min(max(minimum trade size,
\* balance x risk fraction), balance), from get_trade_size and from the
\* inline sizing of ai_trade_monitor (minimum 5 USDT, fraction
\* PER_TRADE_ALLOCATION_PERCENT) whenever it goes on to open a position.
C25_TradeNotional ==
    /\ calc.fn = "get_trade_size" =>
          calc.out = min(max(calc.args[2] * 100, calc.args[1] * calc.args[3]),
                         calc.args[1] * 100)
    /\ (calc.fn = "ai_trade_monitor" /\ calc.out.opened) =>
          calc.out.size = min(max(5 * 100, calc.args[1] * PER_TRADE_ALLOCATION_PERCENT),
                              calc.args[1] * 100)

\* get_trade_size was called with a balance below the minimum trade size:
\* the notional is the balance
C25_Witness ==
    /\ calc.fn = "get_trade_size"
    /\ calc.args[1] > 0
    /\ calc.args[1] < calc.args[2]
    /\ calc.out = calc.args[1] * 100

\* the first period + 1 deltas of the closes handed to get_rsi
Window(closes, period) == Head_n(diff(closes), period + 1)

\* C26: when get_rsi returns a number, it is 100 if every delta of its
\* window is positive and 0 if every delta of its window is negative.
C26_RsiBoundaries ==
    (calc.fn = "get_rsi" /\ ~calc.out.none /\ Window(calc.args[2], calc.args[3]) # <<>>) =>
        LET w == Window(calc.args[2], calc.args[3])
        IN  /\ (\A k \in 1..Len(w) : w[k] > 0) => calc.out.value = 100
            /\ (\A k \in 1..Len(w) : w[k] < 0) => calc.out.value = 0

\* max(high - low, |high - previous close|, |low - previous close|)
TrueRange(prev, cur) ==
    max(max(cur.high - cur.low, abs(cur.high - prev.close)), abs(cur.low - prev.close))

\* C27: calc_atr averages the last `period` true ranges, each the maximum
\* of high - low, |high - previous close| and |low - previous close|.
C27_AtrIsMeanTrueRange ==
    calc.fn = "calc_atr" =>
        LET klines == calc.args[1]
            trs == Last_n([k \in 1..(Len(klines) - 1) |-> TrueRange(klines[k], klines[k + 1])],
                          calc.args[2])
        IN  calc.out.n = Len(trs) /\ calc.out.sum = Sum(trs)

\* C28: with both prices given, is_market_crash_or_big_buyer is True when
\* BTCUSDT is 5% or more above or 5% or more below BTCUSDT_15min_ago, and
\* False when the two are equal.
C28_CrashShield ==
    (/\ calc.fn = "is_market_crash_or_big_buyer"
     /\ calc.args[1] # Absent
     /\ calc.args[2] # Absent) =>
        /\ calc.args[1] * 100 >= calc.args[2] * 105 => calc.out = TRUE
        /\ calc.args[1] * 100 <= calc.args[2] * 95 => calc.out = TRUE
        /\ calc.args[1] = calc.args[2] => calc.out = FALSE

\* C29: get_rsi hands its caller None or a number, never an exception,
\* whatever the exchange call does and however few candles it returns.
C29_RsiNeverRaises ==
    calc.fn = "get_rsi" =>
        /\ ~calc.out.raised
        /\ calc.out.none \/ calc.out.value \in 0..100

\* get_rsi was called with no client configured and returned None
C29_Witness ==
    /\ calc.fn = "get_rsi"
    /\ calc.args[1] = "no_client"
    /\ ~calc.out.raised
    /\ calc.out.none

\* C30: a cycle evaluates its positions after its watchlist pass: while
\* positions are being evaluated, no entry that was past its timeout when
\* the cycle began is still on the watchlist.
C30_WatchlistPassBeforeExits ==
    cyc.pc = "eval" =>
        \A w \in watchlist : <<w.user_id, w.coin_symbol>> \notin cyc.due

\* C31: a step closes a position with reason RSI Exit only while evaluating
\* it in a cycle in which its P/L is greater than -1%, its RSI at entry was
\* above the sell threshold and the RSI the cycle holds for its symbol is
\* below the sell threshold; the recorded P/L of such a close is above -1%.
C31_RsiExitOnlyAboveLossGuard ==
    [][\A id \in Ids :
          (/\ trades[id].status = "open"
           /\ trades'[id].status = "closed"
           /\ trades'[id].close_reason = "RSI Exit")
          => /\ cyc.pc = "eval"
             /\ CurId(cyc) = id
             /\ LET t == CurRow(cyc)
                     s == t.coin_symbol
                     thr == get_user_effective_settings(t.user_id).RSI_SELL_THRESHOLD
                 IN  /\ cyc.prices[s] # Absent
                     /\ PnlPercent(cyc.prices[s], t.buy_price) > -1
                     /\ trades'[id].pnl_percentage > -1
                     /\ t.rsi_at_buy # NULL
                     /\ t.rsi_at_buy > thr
                     /\ cyc.cache[s] # Absent =>
                           (cyc.cache[s] # NULL /\ cyc.cache[s] < thr)
                     /\ (cyc.cache[s] = Absent /\ cyc'.pc # "idle") =>
                           (cyc'.cache[s] # NULL /\ cyc'.cache[s] < thr)]_vars

\* a position bought at an RSI above the sell threshold was closed with
\* reason RSI Exit at a small loss or a gain
C31_Witness ==
    \E id \in Ids :
        /\ trades[id].status = "closed"
        /\ trades[id].close_reason = "RSI Exit"
        /\ trades[id].rsi_at_buy > get_user_effective_settings(trades[id].user_id).RSI_SELL_THRESHOLD
        /\ trades[id].pnl_percentage = 0

\* C32: when evaluation begins prefetch_indicators has fetched the RSI of
\* the symbol of every position of the cycle, so no evaluation step fetches
\* one again: what the cycle holds for a symbol, a value or the lack of
\* one, is what every later lookup of the cycle returns.
C32_RsiFetchedOncePerCycle ==
    [][(cyc.pc = "eval" /\ cyc'.pc # "idle") =>
          \A s \in RowSymbols(cyc.rows) : cyc'.cache[s] = cyc.cache[s]]_vars

\* C33: a call update_user_setting(user, key, v) with a key of
\* SETTING_TO_COLUMN_MAP returns True, after it
\* get_user_effective_settings(user) gives v for that setting, or the
\* tier default when v is None, and gives every other setting as before;
\* with any other key the call returns False and changes nothing.
C33_SettingRoundTrip ==
    [][(calc' # calc /\ calc'.fn = "update_user_setting") =>
          LET u == calc'.args[1]
              key == calc'.args[2]
              v == calc'.args[3]
              before == EffectiveSettings(custom, u)
              after == EffectiveSettings(custom', u)
              defaults == get_user_effective_settings(u)
          IN  IF key \notin DOMAIN SETTING_TO_COLUMN_MAP
              THEN calc'.out = FALSE /\ custom' = custom
              ELSE LET k == SettingOfColumn[SETTING_TO_COLUMN_MAP[key]]
                   IN  /\ calc'.out = TRUE
                       /\ IF v # NULL
                          THEN k \in DOMAIN after /\ after[k] = v
                          ELSE IF k \in DOMAIN defaults
                          THEN k \in DOMAIN after /\ after[k] = defaults[k]
                          ELSE k \notin DOMAIN after
                       /\ \A m \in (DOMAIN after \cup DOMAIN before) \ {k} :
                             /\ m \in DOMAIN after
                             /\ m \in DOMAIN before
                             /\ after[m] = before[m]
                       /\ \A w \in Users \ {u} : custom'[w] = custom[w]]_vars

\* C34: get_autotrade_status of db.py and get_autotrade_status of
\* modules/db_access.py give the same answer for every user and every
\* stored flag; for a flag that was never set both answer enabled for the
\* admin and disabled for everyone else.
C34_AutotradeStatusAgrees ==
    \A u \in Users :
        /\ get_autotrade_status_db_access(u) = get_autotrade_status(u)
        /\ users[u].autotrade_enabled = NoFlag =>
              /\ get_autotrade_status(u) = (u = ADMIN_USER_ID)
              /\ get_autotrade_status_db_access(u) = (u = ADMIN_USER_ID)

\* the price the cycle holds for row t is inside its near-stop-loss zone:
\* stop < price <= stop x (1 + NEAR_STOP_LOSS_THRESHOLD_PERCENT / 100)
InStopZone(c, t) ==
    LET price == c.prices[t.coin_symbol]
    IN  /\ price # Absent
        /\ t.stop_loss_price # NULL
        /\ price > t.stop_loss_price
        /\ price * 100 <= t.stop_loss_price * (100 + NEAR_STOP_LOSS_THRESHOLD_PERCENT)

\* C35: the near-stop-loss alert of a position is sent only while its
\* price is inside the zone and its flag is clear; the flag is set only by
\* a delivered alert and, while the price stays inside the zone, cycle
\* after cycle, it stays set and no further alert is sent; the flag is
\* cleared only by the evaluation of the position at a price outside the
\* zone, and the next evaluation inside the zone alerts again.
C35_NearStopLossOncePerStay ==
    [][/\ (cyc.pc = "eval" /\ cyc' # cyc) =>
            LET id == CurId(cyc)
                zone == InStopZone(cyc, CurRow(cyc))
                flagged == id \in bot_data.near_sl
            IN  /\ cyc'.pc = "sl_send" => (zone /\ ~flagged)
                /\ (zone /\ flagged) => id \in bot_data'.near_sl
                /\ (flagged /\ id \notin bot_data'.near_sl) => ~zone
                /\ (~zone /\ cyc'.pc = "tp_send") => id \notin bot_data'.near_sl
                /\ (zone /\ ~flagged /\ cyc.kind = "dict" /\ cyc'.pc # "manual_note")
                      => cyc'.pc = "sl_send"
       /\ \A id \in Ids :
             /\ (id \notin bot_data.near_sl /\ id \in bot_data'.near_sl)
                   => (cyc.pc = "sl_send" /\ CurId(cyc) = id)
             /\ (id \in bot_data.near_sl /\ id \notin bot_data'.near_sl)
                   => (cyc.pc = "eval" /\ CurId(cyc) = id)
       /\ (cyc.pc # "eval" /\ cyc' # cyc) => cyc'.pc # "sl_send"]_vars

\* a cycle begins to evaluate an open position whose alert was delivered
\* in an earlier cycle and whose price is still inside the zone
C35_Witness ==
    /\ cyc.pc = "eval"
    /\ cyc.kind = "dict"
    /\ CurId(cyc) \in bot_data.near_sl
    /\ InStopZone(cyc, CurRow(cyc))
    /\ trades[CurId(cyc)].status = "open"

\* C36: no near-stop-loss and no near-take-profit alert is sent for a
\* position that the same iteration of the cycle has closed by stop-loss
\* or by the RSI exit.
C36_NoAlertAfterClose ==
    cyc.pc \in {"sl_send", "tp_send"} =>
        ~(/\ trades[CurId(cyc)].status = "closed"
          /\ trades[CurId(cyc)].close_reason \in {"Stop-Loss", "RSI Exit"}
          /\ cyc.close_reason = trades[CurId(cyc)].close_reason)

\* the step in which check_btc_volatility_and_alert classifies the market
Classified == vol.pc = "idle" /\ vol' # vol /\ vol'.current_state # "NULL"

C38_FailedSendKeepsState ==
    [][/\ (vol.pc = "sending" /\ vol'.pc = "idle" /\ ~vol'.delivered) =>
            bot_data'.market_state = bot_data.market_state
       /\ (Classified /\ vol.chat_id
              /\ vol'.current_state # StoredMarketState(bot_data)) =>
            /\ vol'.pc = "sending"
            /\ bot_data'.market_state = StoredMarketState(bot_data)
       /\ (Classified /\ ~vol.chat_id) =>
            /\ vol'.pc = "idle"
            /\ bot_data'.market_state = vol'.current_state]_vars

\* the alert of a transition failed to send: the stored state is not the
\* classified one, and the next check will classify against it
C38_Witness ==
    /\ vol.pc = "idle"
    /\ vol.chat_id
    /\ vol.alert # "NULL"
    /\ ~vol.delivered
    /\ bot_data.market_state # vol.current_state
    /\ bot_data.market_state # "NULL"

\* the rows, the ledger and the balances

\* C39: db.close_trade called with a user id other than the row's returns
\* False and changes no row, ledger or balance; a /close of either handler
\* issued by a user for a position of another user changes nothing and
\* ends the command; a handler suspended in a close holds the id of a
\* position of its caller; and the step that closes a position manually
\* changes no other row and no balance of a user other than its owner.
C39_CloseOnlyOwnPosition ==
    [][/\ \A id \in Ids, u \in Users, p \in CommandPrices :
            trades[id].user_id # u =>
                /\ LET r == close_trade(Store, id, u, p, "Manual Close", "NULL", NoPnl)
                   IN  /\ ~r.ok
                       /\ r.S.trades = trades
                       /\ r.S.perf = perf
                       /\ r.S.users = users
                /\ close_command(u, id, p) => (trades' = trades /\ perf' = perf /\ users' = users /\ cmd'.pc = "idle")
                /\ close_trade_command_start(u, id, p) => (trades' = trades /\ perf' = perf /\ users' = users /\ cmd'.pc = "idle")
       /\ cmd'.pc \in {"selling", "db_only"} => trades'[cmd'.id].user_id = cmd'.user
       /\ \A id \in Ids :
             (trades[id].status = "open" /\ trades'[id].status = "closed") =>
                 /\ \A j \in Ids \ {id} : trades'[j] = trades[j]
                 /\ \A w \in Users \ {trades[id].user_id} : users'[w] = users[w]]_vars

\* a user closed a position of theirs with /close while a position of
\* another user is open and untouched
C39_Witness ==
    \E i, j \in Ids :
        /\ trades[i].user_id # trades[j].user_id
        /\ trades[i].status = "closed"
        /\ trades[i].close_reason \in {"Manual Close", "NULL"}
        /\ trades[j].status = "open"
        /\ aud[j].calls = 0

\* C40: a run of ai_trade_monitor in which the crash/big-buyer shield is
\* triggered, autotrade is off for the admin, or the BTC sentiment is
\* BEARISH asks for no buy order and inserts no row into trades
C40_NoBuyBehindTheGates ==
    [][(/\ calc'.fn = "ai_trade_monitor_run"
        /\ ai_trade_monitor(calc'.args[1], calc'.args[2], calc'.args[3],
                            calc'.args[4], calc'.args[5], calc'.args[6])
        /\ \/ is_market_crash_or_big_buyer(calc'.args[1], calc'.args[2])
           \/ users[ADMIN_USER_ID].autotrade_enabled # 1
           \/ (calc'.args[3][1] = "ok" /\ calc'.args[3][2] * 50 <= calc'.args[3][3]))
       => (trades' = trades /\ calc'.out.buys = 0)]_vars

\* a run with a full buy signal and money in the account, autotrade on and
\* no shield, stopped by the BEARISH sentiment alone
C40_Witness ==
    /\ calc.fn = "ai_trade_monitor_run"
    /\ users[ADMIN_USER_ID].autotrade_enabled = 1
    /\ ~is_market_crash_or_big_buyer(calc.args[1], calc.args[2])
    /\ get_market_sentiment(calc.args[3]) = "BEARISH"
    /\ calc.args[4][1] = 25 /\ calc.args[4][3] > calc.args[4][4]
    /\ calc.args[1] # Absent /\ calc.args[1] < calc.args[4][2]
    /\ calc.args[5] = 100 /\ calc.args[6] = "filled"
    /\ calc.out.buys = 0
    /\ trades = <<>>

====
